---------------------------- MODULE Spec2Model ----------------------------
(***************************************************************************)
(* A state-machine model of the rphys swarm engine: the RK4 group          *)
(* integrator (sim.rs), the particle model (models/particles.rs), the four *)
(* control laws (algorithms/*.rs), the QP projector and the engine that    *)
(* schedules them (engine.rs).                                             *)
(*                                                                         *)
(* Arithmetic.  The program computes in IEEE doubles; the model computes   *)
(* on the integer grid.  A quotient is the f64 quotient whenever that      *)
(* quotient is an integer and is truncated towards zero otherwise (Quot),  *)
(* a square root is the integer square root (ISqrt).  Program constants    *)
(* that are not integers are rounded to the nearest integer.  Time steps   *)
(* are even so that the half steps of RK4 are exact.                       *)
(*                                                                         *)
(* Indexing.  Agent i of the program (0-based) is index i+1 of the model's *)
(* sequences.                                                              *)
(***************************************************************************)
EXTENDS Integers, Sequences, FiniteSets, TLC

VARIABLES
    built,          \* TRUE once a constructor has returned Ok(engine)
    model_id,       \* Engine.model_id
    algorithm_id,   \* Engine.algorithm_id
    algorithm,      \* Engine.algorithm: the installed AlgorithmKind variant
    plane_2d,       \* Engine.plane_2d
    sim,            \* Engine.model: ParticleModel { sim: Simulator }
    last,           \* the last call made on the engine and how it returned
    probe,          \* what the last tick did stage by stage (its locals)
    hist,           \* leader samples and prediction choices of the installed controller
    budget,         \* calls left to the driver of the engine
    qp,             \* a call of project_qp3 / project_qp4: its arguments and what it returned
    par             \* a step_par_with_field in flight: stage, stage buffers, workers

vars == <<built, model_id, algorithm_id, algorithm, plane_2d, sim, last, probe, hist, budget, qp, par>>

---------------------------------------------------------------------------
(* Bounds of the exploration.                                              *)

MaxTicks == 2
MaxWrites == 1

\* the demo scenes are built with at most MaxScene agents on the ring and at most
\* MaxSide agents along each edge of the lattice
MaxScene == 3
MaxSide == 1

---------------------------------------------------------------------------
(* Scalar and vector arithmetic (nalgebra Vector3<f64> on the integer grid) *)

Abs(a) == IF a < 0 THEN -a ELSE a

Sign(a) == IF a < 0 THEN -1 ELSE IF a > 0 THEN 1 ELSE 0

Max2(a, b) == IF a >= b THEN a ELSE b

Min2(a, b) == IF a <= b THEN a ELSE b

\* a / b of two doubles with b # 0: exact when b divides a, truncated otherwise.
Quot(a, b) == Sign(a) * Sign(b) * (Abs(a) \div Abs(b))

RECURSIVE ISqrtBetween(_, _, _)
\* the greatest r in lo..hi with r * r <= a, by bisection
ISqrtBetween(a, lo, hi) ==
    IF lo >= hi THEN lo
    ELSE LET mid == (lo + hi + 1) \div 2
         IN  IF mid * mid <= a THEN ISqrtBetween(a, mid, hi) ELSE ISqrtBetween(a, lo, mid - 1)

\* sqrt, truncated to the grid
ISqrt(a) == IF a <= 0 THEN 0 ELSE ISqrtBetween(a, 0, Min2(a, 46340))

\* sequencing: first is computed before rest is
Then(first, rest) == IF first = first THEN rest ELSE rest

\* a vector with every element computed
Concrete(list) == list \o <<>>

Zero3 == <<0, 0, 0>>

VAdd(a, b) == <<a[1] + b[1], a[2] + b[2], a[3] + b[3]>>

VSub(a, b) == <<a[1] - b[1], a[2] - b[2], a[3] - b[3]>>

VNeg(a) == <<-a[1], -a[2], -a[3]>>

VScale(k, a) == <<k * a[1], k * a[2], k * a[3]>>

VQuot(a, k) == <<Quot(a[1], k), Quot(a[2], k), Quot(a[3], k)>>

VDot(a, b) == a[1] * b[1] + a[2] * b[2] + a[3] * b[3]

Norm2(a) == VDot(a, a)

Norm(a) == ISqrt(Norm2(a))

\* p.z = 0.0 on a copy of p
ZeroZ(a) == <<a[1], a[2], 0>>

\* f64::is_finite: every value of the grid is finite.
IsFinite(a) == a \in Int

\* vec![val; n]
Fill(n, val) == [i \in 1..n |-> val]

---------------------------------------------------------------------------
(* sim.rs: BodyConfig and Simulator                                        *)

BodyConfig(m, st, d, tw, g) ==
    [mass |-> m, state |-> st, drag_coefficient |-> d, trajectory_write |-> tw, group |-> g]

\* Option<Vec<[f64; 7]>>: None, or Some(rec)
NoTraj == [some |-> FALSE, rec |-> <<>>]

EmptyTraj == [some |-> TRUE, rec |-> <<>>]

\* Simulator::new
SimNew(configs, dt) ==
    LET n == Len(configs)
    IN  [x      |-> [i \in 1..n |-> <<configs[i].state[1], configs[i].state[2], configs[i].state[3]>>],
         v      |-> [i \in 1..n |-> <<configs[i].state[4], configs[i].state[5], configs[i].state[6]>>],
         mass   |-> [i \in 1..n |-> configs[i].mass],
         drag   |-> [i \in 1..n |-> configs[i].drag_coefficient],
         groups |-> [i \in 1..n |-> configs[i].group],
         forces |-> Fill(n, Zero3),
         traj   |-> [i \in 1..n |-> IF configs[i].trajectory_write THEN EmptyTraj ELSE NoTraj],
         time   |-> 0,
         dt     |-> dt,
         fx     |-> Fill(n, Zero3)]

\* Simulator::len
SimLen(s) == Len(s.x)

\* Simulator::set_position
SimSetPosition(s, i, pos) == [s EXCEPT !.x[i] = pos]

\* Simulator::set_velocity
SimSetVelocity(s, i, vel) == [s EXCEPT !.v[i] = vel]

\* Simulator::set_force
SimSetForce(s, i, f) == [s EXCEPT !.forces[i] = f]

\* a group write that reaches the agents of every group
SimSetEveryGroupForce(s, g, f) == [s EXCEPT !.forces = [i \in 1..Len(s.forces) |-> f]]

\* Simulator::set_group_force
SimSetGroupForce(s, g, f) ==
    [s EXCEPT !.forces = [i \in 1..Len(s.forces) |-> IF s.groups[i] = g THEN f ELSE s.forces[i]]]

\* acc = (fx[i] - drag[i] * vel) / mass[i]
Acc(f, d, vel, m) == VQuot(VSub(f, VScale(d, vel)), m)

\* base + 0.5 * dt * k   (dt is even: 0.5 * dt is exact)
HalfAdvance(base, dt, k) == VAdd(base, VScale(Quot(dt, 2), k))

\* base + dt * k
FullAdvance(base, dt, k) == VAdd(base, VScale(dt, k))

\* a step that loads the forces at its first stage only
StageForceFirstOnly(s, stage) == IF stage = 1 THEN s.forces ELSE Fill(Len(s.forces), Zero3)

\* a stage that reads a force that depends on how many calls the host has made
StageForceCounted(s, stage) == [i \in 1..Len(s.forces) |-> VAdd(s.forces[i], <<budget.ticks, 0, 0>>)]

\* the force a stage of the step reads: fx.copy_from_slice(&forces)
StageForce(s, stage) == s.forces

\* The four RK4 stages of Simulator::step for a non-empty simulator:
\* the stage slopes k1..k4 and the force vector fx loaded at each stage.
StepStages(s) ==
    LET n   == Len(s.x)
        dt  == s.dt
        fx1 == StageForce(s, 1)
        k1x == [i \in 1..n |-> s.v[i]]
        k1v == [i \in 1..n |-> Acc(fx1[i], s.drag[i], s.v[i], s.mass[i])]
        t1v == [i \in 1..n |-> HalfAdvance(s.v[i], dt, k1v[i])]
        fx2 == StageForce(s, 2)
        k2x == [i \in 1..n |-> t1v[i]]
        k2v == [i \in 1..n |-> Acc(fx2[i], s.drag[i], t1v[i], s.mass[i])]
        t2v == [i \in 1..n |-> HalfAdvance(s.v[i], dt, k2v[i])]
        fx3 == StageForce(s, 3)
        k3x == [i \in 1..n |-> t2v[i]]
        k3v == [i \in 1..n |-> Acc(fx3[i], s.drag[i], t2v[i], s.mass[i])]
        t3v == [i \in 1..n |-> FullAdvance(s.v[i], dt, k3v[i])]
        fx4 == StageForce(s, 4)
        k4x == [i \in 1..n |-> t3v[i]]
        k4v == [i \in 1..n |-> Acc(fx4[i], s.drag[i], t3v[i], s.mass[i])]
    IN  [fx |-> <<fx1, fx2, fx3, fx4>>,
         kx |-> <<k1x, k2x, k3x, k4x>>,
         kv |-> <<k1v, k2v, k3v, k4v>>]

\* an update by the first slope alone: dt * k1
SimpsonFirstSlope(dt, k, i) == VScale(dt, k[1][i])

\* dt * (k1 + 2 k2 + 2 k3 + k4) / 6
Simpson(dt, k, i) ==
    VQuot(VScale(dt, VAdd(VAdd(k[1][i], VScale(2, k[2][i])),
                          VAdd(VScale(2, k[3][i]), k[4][i]))), 6)

\* the trajectory push at the end of Simulator::step
PushTraj(tr, pos, vel, t) ==
    IF tr.some
    THEN [tr EXCEPT !.rec = Append(tr.rec, <<pos[1], pos[2], pos[3], vel[1], vel[2], vel[3], t>>)]
    ELSE tr

\* a step without the early return on the empty simulator: the clock still runs
SimStepClockOnEmpty(s) == [s EXCEPT !.time = s.time + s.dt]

\* Simulator::step
SimStep(s) ==
    LET n == Len(s.x)
    IN  IF n = 0 THEN s
        ELSE LET st == StepStages(s)
                 nx == [i \in 1..n |-> VAdd(s.x[i], Simpson(s.dt, st.kx, i))]
                 nv == [i \in 1..n |-> VAdd(s.v[i], Simpson(s.dt, st.kv, i))]
                 nt == s.time + s.dt
             IN  [s EXCEPT !.x = nx, !.v = nv, !.time = nt, !.fx = st.fx[4],
                           !.traj = [i \in 1..n |-> PushTraj(s.traj[i], nx[i], nv[i], nt)]]

\* the force vectors the stages of a step of s read (none when the step returns early)
StepForces(s) == IF Len(s.x) = 0 THEN <<>> ELSE StepStages(s).fx

\* Simulator::set_dt
SimSetDt(s, dt) == [s EXCEPT !.dt = dt]

\* ForceField::force_all: the forces a field writes to out for time t, positions x
\* and velocities v.  "spring" pulls every body to the origin, "ramp" pushes along
\* x with the time, "push" is the same constant force on every body.
force_all(field, t, x, v) ==
    Concrete([i \in 1..Len(x) |->
                 CASE field = "spring" -> VNeg(x[i])
                   [] field = "ramp" -> <<t, 0, 0>>
                   [] OTHER -> <<2, -4, 0>>])

\* the slopes of one stage of step_with_field at the state (px, pv) and time t, and
\* the arguments force_all was called with
FieldStage(s, field, t, px, pv) ==
    [at |-> [t |-> t, x |-> px, v |-> pv],
     fx |-> force_all(field, t, px, pv),
     kx |-> pv,
     kv |-> Concrete([i \in 1..Len(px) |->
                         Acc(force_all(field, t, px, pv)[i], s.drag[i], pv[i], s.mass[i])])]

\* tmp_x, tmp_v after a stage with slopes k:  x + h * kx,  v + h * kv
FieldAdvance(s, h, k) ==
    [x |-> Concrete([i \in 1..Len(s.x) |-> VAdd(s.x[i], VScale(h, k.kx[i]))]),
     v |-> Concrete([i \in 1..Len(s.v) |-> VAdd(s.v[i], VScale(h, k.kv[i]))])]

\* the stage that follows the stage with slopes k: advance by h, sample the field at t
FieldNext(s, field, t, h, k) ==
    FieldStage(s, field, t, FieldAdvance(s, h, k).x, FieldAdvance(s, h, k).v)

\* the state update, the time update and the trajectory push of step_with_field
FieldUpdate(s, k1, k2, k3, k4) ==
    [s EXCEPT !.x = [i \in 1..Len(s.x) |-> VAdd(s.x[i], Simpson(s.dt, <<k1.kx, k2.kx, k3.kx, k4.kx>>, i))],
              !.v = [i \in 1..Len(s.x) |-> VAdd(s.v[i], Simpson(s.dt, <<k1.kv, k2.kv, k3.kv, k4.kv>>, i))],
              !.time = s.time + s.dt,
              !.fx = k4.fx,
              !.traj = [i \in 1..Len(s.x) |->
                           PushTraj(s.traj[i],
                                    VAdd(s.x[i], Simpson(s.dt, <<k1.kx, k2.kx, k3.kx, k4.kx>>, i)),
                                    VAdd(s.v[i], Simpson(s.dt, <<k1.kv, k2.kv, k3.kv, k4.kv>>, i)),
                                    s.time + s.dt)]]

\* the simulator step_with_field leaves, and the calls of force_all it made
FieldDone(s, k1, k2, k3, k4) ==
    [sim |-> FieldUpdate(s, k1, k2, k3, k4), calls |-> <<k1.at, k2.at, k3.at, k4.at>>]

\* k4 of step_with_field, and the update
FieldLast(s, field, k1, k2, k3) ==
    FieldDone(s, k1, k2, k3, FieldNext(s, field, s.time + s.dt, s.dt, k3))

\* a third stage that samples the field at the end of the step
FieldThirdAtEnd(s, field, k1, k2) ==
    FieldLast(s, field, k1, k2, FieldNext(s, field, s.time + s.dt, Quot(s.dt, 2), k2))

\* k3 of step_with_field, and the rest
FieldThird(s, field, k1, k2) ==
    FieldLast(s, field, k1, k2, FieldNext(s, field, s.time + Quot(s.dt, 2), Quot(s.dt, 2), k2))

\* k2 of step_with_field, and the rest
FieldSecond(s, field, k1) ==
    FieldThird(s, field, k1, FieldNext(s, field, s.time + Quot(s.dt, 2), Quot(s.dt, 2), k1))

\* Simulator::step_with_field
SimStepWithField(s, field) ==
    IF Len(s.x) = 0 THEN s
    ELSE FieldSecond(s, field, FieldStage(s, field, s.time, s.x, s.v)).sim

\* the calls of field.force_all that step_with_field makes, in program order
FieldCalls(s, field) ==
    IF Len(s.x) = 0 THEN <<>>
    ELSE FieldSecond(s, field, FieldStage(s, field, s.time, s.x, s.v)).calls


---------------------------------------------------------------------------
(* models/particles.rs: ParticleModel, a thin wrapper of the Simulator     *)

\* ParticleModel::new
ParticleModelNew(configs, dt) == SimNew(configs, dt)

\* ParticleModel::set_uniform_force
set_uniform_force(s, f) == [s EXCEPT !.forces = [i \in 1..Len(s.forces) |-> f]]

\* ParticleModel::flatten_to_plane
\* a flatten that leaves the velocities alone
flatten_positions_only(s) == [s EXCEPT !.x = [i \in 1..Len(s.x) |-> ZeroZ(s.x[i])]]

\* ParticleModel::flatten_to_plane
flatten_to_plane(s) ==
    [s EXCEPT !.x = [i \in 1..Len(s.x) |-> ZeroZ(s.x[i])],
              !.v = [i \in 1..Len(s.v) |-> ZeroZ(s.v[i])]]

\* the copies a controller takes of the positions (velocities) at the top of apply
ControllerView(vecs, plane) ==
    Concrete([i \in 1..Len(vecs) |-> IF plane THEN ZeroZ(vecs[i]) ELSE vecs[i]])

\* a controller that writes its flattened copies back with the forces
WriteForcesAndCopies(s, fs) == [flatten_to_plane(s) EXCEPT !.forces = Concrete(fs)]

\* for (i, f) in forces.into_iter().enumerate() { model.set_force(i, f) }
WriteForces(s, fs) == [s EXCEPT !.forces = Concrete(fs)]

RECURSIVE VSum(_, _)
\* the sum of the first n vectors of f, accumulated in index order
VSum(f, n) == IF n = 0 THEN Zero3 ELSE VAdd(VSum(f, n - 1), f[n])

RECURSIVE FlattenRange(_, _, _)
FlattenRange(lists, lo, hi) ==
    IF lo > hi THEN <<>>
    ELSE IF lo = hi THEN lists[lo]
    ELSE LET mid == (lo + hi) \div 2
         IN  FlattenRange(lists, lo, mid) \o FlattenRange(lists, mid + 1, hi)

\* the lists a loop pushed, one after the other
Flatten(lists) == FlattenRange(lists, 1, Len(lists))

---------------------------------------------------------------------------
(* algorithms/flocking.rs: classical flocking (stateless)                  *)

DEFAULT_NEIGHBOR_RADIUS == 3
DEFAULT_SEPARATION_RADIUS == 1
DEFAULT_COHESION_WEIGHT == 1
DEFAULT_ALIGNMENT_WEIGHT == 1
DEFAULT_SEPARATION_WEIGHT == 10
DEFAULT_BOUNDARY_RADIUS == 6
DEFAULT_BOUNDARY_WEIGHT == 1
DEFAULT_MAX_SPEED == 2
DEFAULT_MAX_FORCE == 2
DEFAULT_SPEED_LIMIT == 2

\* FlockParams::default
FlockParamsDefault ==
    [neighbor_radius   |-> DEFAULT_NEIGHBOR_RADIUS,
     separation_radius |-> DEFAULT_SEPARATION_RADIUS,
     cohesion_weight   |-> DEFAULT_COHESION_WEIGHT,
     alignment_weight  |-> DEFAULT_ALIGNMENT_WEIGHT,
     separation_weight |-> DEFAULT_SEPARATION_WEIGHT,
     boundary_radius   |-> DEFAULT_BOUNDARY_RADIUS,
     boundary_weight   |-> DEFAULT_BOUNDARY_WEIGHT,
     max_speed         |-> DEFAULT_MAX_SPEED,
     max_force         |-> DEFAULT_MAX_FORCE,
     speed_limit       |-> DEFAULT_SPEED_LIMIT]

\* if dist > radius && dist > 0 { -dir * (dist - radius) * weight }, dir = vec / dist
\* (the soft boundary on a position, the speed damping on a velocity)
ExcessTerm(vec, radius, weight) ==
    LET dist == Norm(vec)
    IN  IF dist > radius /\ dist > 0
        THEN VScale(weight, VScale(dist - radius, VNeg(VQuot(vec, dist))))
        ELSE Zero3

\* if mag > max && mag > 0 { f / mag * max }
ClampMagnitude(f, maxf) ==
    LET mag == Norm(f)
    IN  IF mag > maxf /\ mag > 0 THEN VScale(maxf, VQuot(f, mag)) ELSE f

\* the controller's last word on a command in 2D mode: its z component is zeroed
PlaneOutput(f, plane) == IF plane THEN ZeroZ(f) ELSE f

\* the body of the loop over i of Flocking::apply: the force of agent i
FlockForce(P, V, i, p, plane) ==
    LET n    == Len(P)
        nr2  == p.neighbor_radius * p.neighbor_radius
        sr2  == p.separation_radius * p.separation_radius
        d2   == [j \in 1..n |-> Norm2(VSub(P[i], P[j]))]
        near == [j \in 1..n |-> j # i /\ d2[j] < nr2]
        clos == [j \in 1..n |-> j # i /\ d2[j] < sr2 /\ d2[j] > 0]
        cohesion_sum   == VSum([j \in 1..n |-> IF near[j] THEN P[j] ELSE Zero3], n)
        alignment_sum  == VSum([j \in 1..n |-> IF near[j] THEN V[j] ELSE Zero3], n)
        separation_sum == VSum([j \in 1..n |-> IF clos[j]
                                                THEN VQuot(VSub(P[i], P[j]), ISqrt(d2[j]))
                                                ELSE Zero3], n)
        neighbors == Cardinality({j \in 1..n : near[j]})
        close     == Cardinality({j \in 1..n : clos[j]})
        f1 == IF neighbors > 0
              THEN VAdd(VScale(p.cohesion_weight, VSub(VQuot(cohesion_sum, neighbors), P[i])),
                        VScale(p.alignment_weight, VSub(VQuot(alignment_sum, neighbors), V[i])))
              ELSE Zero3
        f2 == IF close > 0
              THEN VAdd(f1, VScale(p.separation_weight, VQuot(separation_sum, close)))
              ELSE f1
        f3 == VAdd(f2, ExcessTerm(P[i], p.boundary_radius, p.boundary_weight))
        f4 == VAdd(f3, ExcessTerm(V[i], p.max_speed, p.speed_limit))
    IN  PlaneOutput(ClampMagnitude(f4, p.max_force), plane)

\* Flocking::apply
FlockingApply(algo, s, plane) ==
    LET P == ControllerView(s.x, plane)
        V == ControllerView(s.v, plane)
        n == Len(P)
    IN  IF n = 0 THEN s
        ELSE WriteForces(s, [i \in 1..n |-> FlockForce(P, V, i, algo.params, plane)])

---------------------------------------------------------------------------
(* algorithms/flocking_alpha.rs: alpha-lattice flocking (stateless)        *)

DEFAULT_ALPHA_NEIGHBOR_RADIUS == 3
DEFAULT_ALPHA_DESIRED_DISTANCE == 1
DEFAULT_ALPHA_SIGMA_EPS == 1
DEFAULT_ALPHA_BUMP_H == 0
DEFAULT_ALPHA_PHI_A == 5
DEFAULT_ALPHA_PHI_B == 5
DEFAULT_ALPHA_WEIGHT == 1
DEFAULT_ALPHA_ALIGNMENT_WEIGHT == 1

\* FlockAlphaParams::default
FlockAlphaParamsDefault ==
    [neighbor_radius  |-> DEFAULT_ALPHA_NEIGHBOR_RADIUS,
     desired_distance |-> DEFAULT_ALPHA_DESIRED_DISTANCE,
     sigma_eps        |-> DEFAULT_ALPHA_SIGMA_EPS,
     bump_h           |-> DEFAULT_ALPHA_BUMP_H,
     phi_a            |-> DEFAULT_ALPHA_PHI_A,
     phi_b            |-> DEFAULT_ALPHA_PHI_B,
     alpha_weight     |-> DEFAULT_ALPHA_WEIGHT,
     alignment_weight |-> DEFAULT_ALPHA_ALIGNMENT_WEIGHT,
     boundary_radius  |-> DEFAULT_BOUNDARY_RADIUS,
     boundary_weight  |-> DEFAULT_BOUNDARY_WEIGHT,
     max_speed        |-> DEFAULT_MAX_SPEED,
     max_force        |-> DEFAULT_MAX_FORCE,
     speed_limit      |-> DEFAULT_SPEED_LIMIT]

\* sigma_norm_scalar
sigma_norm_scalar(value, eps) == Quot(ISqrt(1 + eps * value * value) - 1, eps)

\* cos(pi * k) for an integer k
CosPi(k) == IF k % 2 = 0 THEN 1 ELSE -1

\* bump_rho
bump_rho(s, h) ==
    IF s < 0 THEN 0
    ELSE IF s < h THEN 1
    ELSE IF s <= 1
         THEN LET denom == 1 - h
              IN  IF denom <= 0 THEN 0 ELSE Quot(1 + CosPi(Quot(s - h, denom)), 2)
         ELSE 0

\* sigma1
sigma1(x) == Quot(x, ISqrt(1 + x * x))

\* uneven_phi
uneven_phi(x, a, b) ==
    LET denom == ISqrt(4 * a * b)
        c     == IF denom > 0 THEN Quot(Abs(a - b), denom) ELSE 0
    IN  Quot((a + b) * sigma1(x + c) + (a - b), 2)

\* phi_alpha
phi_alpha(z, d_alpha, r_alpha, h, a, b) ==
    IF r_alpha <= 0 THEN 0
    ELSE bump_rho(Quot(z, r_alpha), h) * uneven_phi(z - d_alpha, a, b)

\* the parameter clamps at the top of FlockingAlpha::apply (and of compute_nominal)
AlphaClamps(p) ==
    LET d  == p.desired_distance
        r0 == IF ~IsFinite(p.neighbor_radius) \/ p.neighbor_radius <= 0
              THEN Max2(d, 0) ELSE p.neighbor_radius
        r  == IF r0 < d THEN d ELSE r0
        \* 1.0e-9, the fallback of a non-positive eps, is the least positive grid value
        eps == IF ~IsFinite(p.sigma_eps) \/ p.sigma_eps <= 0 THEN 1 ELSE p.sigma_eps
        h0 == IF ~IsFinite(p.bump_h) THEN DEFAULT_ALPHA_BUMP_H ELSE p.bump_h
        h1 == IF h0 < 0 THEN 0 ELSE h0
        \* 0.999, the cap of h, is the greatest grid value below 1
        h  == IF h1 >= 1 THEN 0 ELSE h1
        a  == IF IsFinite(p.phi_a) /\ p.phi_a > 0 THEN p.phi_a ELSE DEFAULT_ALPHA_PHI_A
        b  == IF IsFinite(p.phi_b) /\ p.phi_b > 0 THEN p.phi_b ELSE DEFAULT_ALPHA_PHI_B
    IN  [r |-> r, neighbor_r2 |-> r * r, eps |-> eps, h |-> h, a |-> a, b |-> b,
         d_alpha |-> sigma_norm_scalar(Max2(d, 0), eps),
         r_alpha |-> sigma_norm_scalar(r, eps)]

\* the body of the loop over i of FlockingAlpha::apply: the force of agent i
AlphaForce(P, V, i, p, plane) ==
    LET n    == Len(P)
        c    == AlphaClamps(p)
        diff == [j \in 1..n |-> VSub(P[j], P[i])]
        d2   == [j \in 1..n |-> Norm2(diff[j])]
        near == [j \in 1..n |-> j # i /\ d2[j] <= c.neighbor_r2]
        den  == [j \in 1..n |-> ISqrt(1 + c.eps * d2[j])]
        z    == [j \in 1..n |-> Quot(den[j] - 1, c.eps)]
        nij  == [j \in 1..n |-> IF den[j] > 0 THEN VQuot(diff[j], den[j]) ELSE diff[j]]
        aij  == [j \in 1..n |-> bump_rho(IF c.r_alpha > 0 THEN Quot(z[j], c.r_alpha) ELSE 0, c.h)]
        grad_sum == VSum([j \in 1..n |-> IF near[j]
                             THEN VScale(phi_alpha(z[j], c.d_alpha, c.r_alpha, c.h, c.a, c.b), nij[j])
                             ELSE Zero3], n)
        cons_raw == VSum([j \in 1..n |-> IF near[j] THEN VScale(aij[j], VSub(V[j], V[i])) ELSE Zero3], n)
        neighbors == Cardinality({j \in 1..n : near[j]})
        cons_sum == IF neighbors > 0 THEN VQuot(cons_raw, neighbors) ELSE cons_raw
        f1 == VAdd(VScale(p.alpha_weight, grad_sum), VScale(p.alignment_weight, cons_sum))
        f2 == VAdd(f1, ExcessTerm(P[i], p.boundary_radius, p.boundary_weight))
        f3 == VAdd(f2, ExcessTerm(V[i], p.max_speed, p.speed_limit))
    IN  PlaneOutput(ClampMagnitude(f3, p.max_force), plane)

\* FlockingAlpha::apply
FlockingAlphaApply(algo, s, plane) ==
    LET P == ControllerView(s.x, plane)
        V == ControllerView(s.v, plane)
        n == Len(P)
    IN  IF n = 0 THEN s
        ELSE WriteForces(s, [i \in 1..n |-> AlphaForce(P, V, i, algo.params, plane)])

---------------------------------------------------------------------------
(* algorithms/qp_project.rs: Dykstra projection onto box /\ half-spaces.   *)
(* The 3D and the 4D projector are the same text over Vector3 and          *)
(* SVector<f64, 4>; the model states it once over vectors of any length.   *)

\* a vector of three or of four components, built from its components
SVec(a, f(_)) == IF Len(a) = 3 THEN <<f(1), f(2), f(3)>> ELSE <<f(1), f(2), f(3), f(4)>>

SVAdd(a, b) == LET f(i) == a[i] + b[i] IN SVec(a, f)

SVSub(a, b) == LET f(i) == a[i] - b[i] IN SVec(a, f)

SVScale(k, a) == LET f(i) == k * a[i] IN SVec(a, f)

RECURSIVE SVDotTo(_, _, _)
SVDotTo(a, b, n) == IF n = 0 THEN 0 ELSE SVDotTo(a, b, n - 1) + a[n] * b[n]

SVDot(a, b) == SVDotTo(a, b, Len(a))

\* Halfspace3 / Halfspace4
Halfspace(a, b) == [a |-> a, b |-> b]

\* clamp_vec3 / clamp_vec4
clamp_vec(v, lo, hi) == LET f(i) == Min2(Max2(v[i], lo[i]), hi[i]) IN SVec(v, f)

\* a half-space projection that lets every point through
project_halfspace_pass(y, a, b) == y

\* project_halfspace3 / project_halfspace4  (aa <= 1.0e-12 is aa <= 0 on the grid)
project_halfspace(y, a, b) ==
    LET aa == SVDot(a, a)
        ay == SVDot(a, y)
    IN  IF aa <= 0 THEN y
        ELSE IF ay >= b THEN y
        ELSE SVAdd(y, SVScale(Quot(b - ay, aa), a))

\* One projection of project_qp3 / project_qp4. Slot 0 is the box projection that opens
\* an iteration, slot idx + 1 the half-space constraints[idx] of the sweep that follows
\* (corr[0] and corr[idx + 1] of the source are corr[1] and corr[slot + 1] here).
QpProject(st, box_min, box_max, constraints, slot) ==
    LET y     == SVAdd(st.x, st.corr[slot + 1])
        x_new == IF slot = 0 THEN clamp_vec(y, box_min, box_max)
                 ELSE project_halfspace(y, constraints[slot].a, constraints[slot].b)
    IN  [x |-> x_new, corr |-> [st.corr EXCEPT ![slot + 1] = SVSub(y, x_new)]]

RECURSIVE QpRun(_, _, _, _, _, _)
\* the projections number lo..hi of for _ in 0..iters.max(1) { box; for c in constraints },
\* in program order (the run is split in halves to keep the evaluation shallow)
QpRun(st, box_min, box_max, constraints, lo, hi) ==
    IF lo > hi THEN st
    ELSE IF lo = hi
    THEN QpProject(st, box_min, box_max, constraints, lo % (Len(constraints) + 1))
    ELSE LET mid  == (lo + hi) \div 2
             half == QpRun(st, box_min, box_max, constraints, lo, mid)
         IN  Then(half, QpRun(half, box_min, box_max, constraints, mid + 1, hi))

\* project_qp3
project_qp3(x_nom, box_min, box_max, constraints, iters) ==
    QpRun([x |-> x_nom, corr |-> Fill(Len(constraints) + 1, SVScale(0, x_nom))],
          box_min, box_max, constraints, 0, Max2(iters, 1) * (Len(constraints) + 1) - 1).x

\* project_qp4
project_qp4(x_nom, box_min, box_max, constraints, iters) ==
    QpRun([x |-> x_nom, corr |-> Fill(Len(constraints) + 1, SVScale(0, x_nom))],
          box_min, box_max, constraints, 0, Max2(iters, 1) * (Len(constraints) + 1) - 1).x

---------------------------------------------------------------------------
(* algorithms/obstacles.rs                                                 *)

ObstaclePoly(a2, a1, a0, d) == [a2 |-> a2, a1 |-> a1, a0 |-> a0, d |-> d]

\* ObstaclePoly::pos
ObPos(ob, t) == VAdd(VAdd(VScale(t * t, ob.a2), VScale(t, ob.a1)), ob.a0)

\* ObstaclePoly::vel
ObVel(ob, t) == VAdd(VScale(2 * t, ob.a2), ob.a1)

\* ObstaclePoly::acc
ObAcc(ob) == VScale(2, ob.a2)

\* paper_obstacles
paper_obstacles ==
    << ObstaclePoly(Zero3, Zero3, <<47, 86, 10>>, 5),
       ObstaclePoly(Zero3, Zero3, <<52, 78, 9>>, 4),
       ObstaclePoly(Zero3, Zero3, <<43, 82, 62>>, 5),
       ObstaclePoly(Zero3, Zero3, <<49, 75, 61>>, 6),
       ObstaclePoly(Zero3, Zero3, <<95, 15, 100>>, 3),
       ObstaclePoly(Zero3, Zero3, <<69, 83, 125>>, 6) >>

---------------------------------------------------------------------------
(* algorithms/formation_ecbf.rs: fixed-time formation tracking + ECBF      *)
(* Angles are counted in quarter turns, where cos and sin are integers.    *)

DEFAULT_QP_ITERS == 12

\* cos of k quarter turns
CosQ(k) == CASE k % 4 = 0 -> 1 [] k % 4 = 2 -> -1 [] OTHER -> 0

\* sin of k quarter turns
SinQ(k) == CASE k % 4 = 1 -> 1 [] k % 4 = 3 -> -1 [] OTHER -> 0

\* asin, in quarter turns, of a value clamped to [-1, 1]
AsinQ(a) == Min2(Max2(a, -1), 1)

\* atan2(y, x) to the nearest quarter turn
Atan2Q(y, x) ==
    IF Abs(x) >= Abs(y) THEN (IF x >= 0 THEN 0 ELSE 2) ELSE Sign(y)

\* LeaderTrajectory::state: the sample (p, v, a) at time t
LeaderSample(l, t) ==
    CASE l.kind = "Paper" ->
            LET c == CosQ(2) IN LET sn == SinQ(2)
            IN  << <<60 + 25 * c, 60 + 25 * sn, Quot(t, 2)>>,
                   <<Quot(3 * sn, 2), -Quot(3 * c, 2), 1>>,
                   Zero3 >>
      [] l.kind = "Static" -> <<l.position, Zero3, Zero3>>
      [] l.kind = "Poly" ->
            << VAdd(VAdd(VScale(t * t, l.a2), VScale(t, l.a1)), l.a0),
               VAdd(VScale(2 * t, l.a2), l.a1),
               VScale(2, l.a2) >>
      [] l.kind = "Circle" ->
            LET angle == l.omega * t
                c  == CosQ(angle)
                sn == SinQ(angle)
            IN  << <<l.center[1] + l.radius * c, l.center[2] + l.radius * sn, l.center[3]>>,
                   <<-l.radius * l.omega * sn, l.radius * l.omega * c, 0>>,
                   <<-l.radius * l.omega * l.omega * c, -l.radius * l.omega * l.omega * sn, 0>> >>
      [] OTHER -> \* Custom: custom_leader_trajectory, radius 15, omega 0.04, climb 0.2 t
            << <<15, 0, 0>>, Zero3, Zero3 >>

\* FormationEcbfParams::default
FormationEcbfParamsDefault ==
    [k1 |-> 2, k2 |-> 3, gamma1 |-> 1, gamma2 |-> 1, m1 |-> 1, m2 |-> 2,
     obs_k1 |-> 1, obs_k2 |-> 1, obs_k3 |-> 2,
     obs_a1 |-> 2, obs_a2 |-> 1, obs_b1 |-> 1, obs_b2 |-> 2,
     do_kappa1 |-> 4, do_kappa2 |-> 2, do_kappa3 |-> 3,
     do_eta1 |-> 2, do_eta2 |-> 2, do_eta3 |-> 1, do_n1 |-> 1, do_n2 |-> 2,
     delta_theta |-> 0, delta2_star |-> 0, lambda1 |-> 2, lambda2 |-> 2,
     gravity |-> 10, desired_yaw |-> 0, leader_time_scale |-> 1, leader_paused |-> FALSE,
     smooth_eps |-> 0, mu_dot_filter |-> 1, alpha_dot_filter |-> 1,
     u_min |-> <<-6, -6, 0>>, u_max |-> <<6, 6, 20>>, qp_iters |-> DEFAULT_QP_ITERS,
     obstacles |-> paper_obstacles,
     formation_offsets |-> << <<-3, 3, 0>>, <<-3, -3, 0>>, <<3, 3, 0>>, <<3, -3, 0>> >>,
     auto_offsets |-> TRUE,
     adjacency |-> << <<0, 0, 1, 0>>, <<0, 0, 1, 1>>, <<1, 1, 0, 0>>, <<0, 1, 0, 0>> >>,
     leader_links |-> <<1, 1, 0, 0>>,
     leader |-> [kind |-> "Circle", center |-> Zero3, radius |-> 6, omega |-> 0],
     use_moving_obstacle_terms |-> TRUE]

\* Option<(p, v, a)>
NoHold == [some |-> FALSE, val |-> <<Zero3, Zero3, Zero3>>]

SomeHold(sample) == [some |-> TRUE, val |-> sample]

\* FormationEcbfState::default
FormationEcbfStateDefault ==
    [chi |-> <<>>, varsigma |-> <<>>, v_hat |-> <<>>, theta_hat |-> <<>>, p_state |-> <<>>,
     mu_prev |-> <<>>, mu_dot_prev |-> <<>>, alpha_prev |-> <<>>, alpha_dot_prev |-> <<>>,
     mu_ready |-> <<>>, alpha_ready |-> <<>>,
     formation_offsets |-> <<>>, offsets_ready |-> FALSE,
     attitudes |-> <<>>, thrusts |-> <<>>, leader_hold |-> NoHold]

\* FormationEcbf::new
FormationEcbfNew(params) == [kind |-> "FormationEcbf", params |-> params, state |-> FormationEcbfStateDefault]

RECURSIVE Pow(_, _)
Pow(b, e) == IF e <= 0 THEN 1 ELSE b * Pow(b, e - 1)

\* smooth_sign: x / sqrt(x*x + eps*eps)
smooth_sign(x, eps) ==
    LET sq == ISqrt(x * x + eps * eps) IN IF sq = 0 THEN 0 ELSE Quot(x, sq)

\* sig_pow: s.powf(a - 1.0) * x with s = sqrt(x*x + eps*eps)
sig_pow(x, a, eps) ==
    LET sq == ISqrt(x * x + eps * eps)
    IN  IF sq <= 0 THEN 0
        ELSE IF a >= 1 THEN Pow(sq, a - 1) * x
        ELSE Quot(x, Pow(sq, 1 - a))

\* sign_vec
sign_vec(vec, eps) == <<smooth_sign(vec[1], eps), smooth_sign(vec[2], eps), smooth_sign(vec[3], eps)>>

\* sig_pow_vec
sig_pow_vec(vec, a, eps) == <<sig_pow(vec[1], a, eps), sig_pow(vec[2], a, eps), sig_pow(vec[3], a, eps)>>

\* FormationEcbf::a1   (max(1.0e-6) guards the divisor: the least positive grid value)
EcbfA1(p) == 2 - Quot(p.m1, Max2(p.m2, 1))

\* FormationEcbf::a2
EcbfA2(p) == Quot(p.m1, Max2(p.m2, 1))

\* FormationEcbf::leader_state: the sample returned and the state it leaves
leader_state(algo, t) ==
    IF algo.params.leader_paused
    THEN IF algo.state.leader_hold.some
         THEN [out |-> algo.state.leader_hold.val, state |-> algo.state]
         ELSE LET sample == LeaderSample(algo.params.leader, t * algo.params.leader_time_scale)
              IN  [out |-> sample, state |-> [algo.state EXCEPT !.leader_hold = SomeHold(sample)]]
    ELSE [out   |-> LeaderSample(algo.params.leader, t * algo.params.leader_time_scale),
          state |-> [algo.state EXCEPT !.leader_hold = NoHold]]

\* an ensure_state that sizes the observer buffers and leaves the attitude buffers
ensure_state_observers_only(st, n, velocities, p0, v0) ==
    IF Len(st.chi) = n THEN st
    ELSE [chi |-> Fill(n, p0), varsigma |-> Fill(n, v0), v_hat |-> velocities,
          theta_hat |-> Fill(n, Zero3), p_state |-> Fill(n, Zero3),
          mu_prev |-> Fill(n, Zero3), mu_dot_prev |-> Fill(n, Zero3),
          alpha_prev |-> Fill(n, Zero3), alpha_dot_prev |-> Fill(n, Zero3),
          mu_ready |-> Fill(n, FALSE), alpha_ready |-> Fill(n, FALSE),
          formation_offsets |-> <<>>, offsets_ready |-> FALSE,
          attitudes |-> st.attitudes, thrusts |-> st.thrusts,
          leader_hold |-> NoHold]

\* FormationEcbf::ensure_state
ensure_state(st, n, velocities, p0, v0) ==
    IF Len(st.chi) = n THEN st
    ELSE [chi |-> Fill(n, p0), varsigma |-> Fill(n, v0), v_hat |-> velocities,
          theta_hat |-> Fill(n, Zero3), p_state |-> Fill(n, Zero3),
          mu_prev |-> Fill(n, Zero3), mu_dot_prev |-> Fill(n, Zero3),
          alpha_prev |-> Fill(n, Zero3), alpha_dot_prev |-> Fill(n, Zero3),
          mu_ready |-> Fill(n, FALSE), alpha_ready |-> Fill(n, FALSE),
          formation_offsets |-> <<>>, offsets_ready |-> FALSE,
          attitudes |-> Fill(n, Zero3), thrusts |-> Fill(n, 0),
          leader_hold |-> NoHold]

\* an ensure_offsets that computes the offsets at every apply
ensure_offsets_every_apply(st, p, positions, leader_pos) ==
    IF Len(p.formation_offsets) = Len(positions)
    THEN [st EXCEPT !.formation_offsets = p.formation_offsets, !.offsets_ready = TRUE]
    ELSE IF p.auto_offsets
    THEN [st EXCEPT !.formation_offsets = [i \in 1..Len(positions) |-> VSub(positions[i], leader_pos)],
                    !.offsets_ready = TRUE]
    ELSE [st EXCEPT !.formation_offsets = Fill(Len(positions), Zero3), !.offsets_ready = TRUE]

\* FormationEcbf::ensure_offsets
ensure_offsets(st, p, positions, leader_pos) ==
    LET n == Len(positions)
    IN  IF st.offsets_ready THEN st
        ELSE IF Len(p.formation_offsets) = n
        THEN [st EXCEPT !.formation_offsets = p.formation_offsets, !.offsets_ready = TRUE]
        ELSE IF p.auto_offsets
        THEN [st EXCEPT !.formation_offsets = [i \in 1..n |-> VSub(positions[i], leader_pos)],
                        !.offsets_ready = TRUE]
        ELSE [st EXCEPT !.formation_offsets = Fill(n, Zero3), !.offsets_ready = TRUE]

\* FormationEcbf::adj_weight
adj_weight(p, i, j, n) ==
    IF Len(p.adjacency) = n /\ Len(p.adjacency[i]) = n
    THEN p.adjacency[i][j]
    ELSE IF i = j THEN 0 ELSE 1

\* FormationEcbf::leader_link
leader_link(p, i, n) == IF Len(p.leader_links) = n THEN p.leader_links[i] ELSE 1

\* one pass of the loop over i of update_distributed_observer, on the state as it
\* stands when agent i is reached (chi and varsigma are updated in place)
ObserverAgent(st, p, i, n, dt, p0, v0) ==
    LET a1  == Quot(p.obs_a1, Max2(p.obs_a2, 1))
        b1  == Quot(p.obs_b1, Max2(p.obs_b2, 1))
        eps == p.smooth_eps
        w   == [j \in 1..n |-> IF i = j THEN 0 ELSE adj_weight(p, i, j, n)]
        nb_chi == VSum([j \in 1..n |-> VScale(w[j], VSub(st.chi[i], st.chi[j]))], n)
        nb_var == VSum([j \in 1..n |-> VScale(w[j], VSub(st.varsigma[i], st.varsigma[j]))], n)
        a_i0   == leader_link(p, i, n)
        sum_chi == IF a_i0 # 0 THEN VAdd(nb_chi, VScale(a_i0, VSub(st.chi[i], p0))) ELSE nb_chi
        sum_var == IF a_i0 # 0 THEN VAdd(nb_var, VScale(a_i0, VSub(st.varsigma[i], v0))) ELSE nb_var
        chi_dot == VAdd(VSub(VNeg(VScale(p.obs_k1, sig_pow_vec(sum_chi, a1, eps))),
                             VScale(p.obs_k2, sig_pow_vec(sum_chi, b1, eps))),
                        st.varsigma[i])
        varsigma_dot == VSub(VSub(VNeg(VScale(p.obs_k1, sig_pow_vec(sum_var, a1, eps))),
                                  VScale(p.obs_k2, sig_pow_vec(sum_var, b1, eps))),
                             VScale(p.obs_k3, sign_vec(sum_var, eps)))
    IN  [st EXCEPT !.chi[i] = VAdd(st.chi[i], VScale(dt, chi_dot)),
                   !.varsigma[i] = VAdd(st.varsigma[i], VScale(dt, varsigma_dot))]

RECURSIVE ObserverLoop(_, _, _, _, _, _, _, _)
\* agents lo..hi of the loop, in index order
ObserverLoop(st, p, lo, hi, n, dt, p0, v0) ==
    IF lo > hi THEN st
    ELSE IF lo = hi THEN ObserverAgent(st, p, lo, n, dt, p0, v0)
    ELSE LET mid  == (lo + hi) \div 2
             half == ObserverLoop(st, p, lo, mid, n, dt, p0, v0)
         IN  Then(half, ObserverLoop(half, p, mid + 1, hi, n, dt, p0, v0))

\* FormationEcbf::update_distributed_observer
update_distributed_observer(st, p, n, dt, p0, v0) == ObserverLoop(st, p, 1, n, n, dt, p0, v0)

\* FormationEcbf::compute_alpha
compute_alpha(p, z1, varsigma) ==
    VAdd(VSub(VSub(VNeg(VScale(p.k1, z1)),
                   VScale(p.gamma1, sig_pow_vec(z1, EcbfA1(p), p.smooth_eps))),
              VScale(p.gamma2, sig_pow_vec(z1, EcbfA2(p), p.smooth_eps))),
         varsigma)

\* filter.clamp(0.0, 0.999): 0.999 is the greatest grid value below 1
FilterBeta(f) == Min2(Max2(f, 0), 0)

\* FormationEcbf::update_alpha_dot: the derivative returned and the state it leaves
update_alpha_dot(st, p, i, alpha, dt) ==
    IF ~st.alpha_ready[i]
    THEN [out |-> Zero3,
          state |-> [st EXCEPT !.alpha_prev[i] = alpha, !.alpha_dot_prev[i] = Zero3,
                               !.alpha_ready[i] = TRUE]]
    ELSE LET raw      == VQuot(VSub(alpha, st.alpha_prev[i]), dt)
             beta     == FilterBeta(p.alpha_dot_filter)
             filtered == VAdd(VScale(beta, st.alpha_dot_prev[i]), VScale(1 - beta, raw))
         IN  [out |-> filtered,
              state |-> [st EXCEPT !.alpha_prev[i] = alpha, !.alpha_dot_prev[i] = filtered]]

\* FormationEcbf::update_disturbance_observer
update_disturbance_observer(st, p, i, vel, u, gamma_v, dt) ==
    LET v_hat == VAdd(st.v_hat[i], VScale(dt, VAdd(VAdd(u, gamma_v), st.theta_hat[i])))
        mu    == VSub(vel, v_hat)
    IN  IF ~st.mu_ready[i]
        THEN [st EXCEPT !.v_hat[i] = v_hat, !.mu_prev[i] = mu, !.mu_dot_prev[i] = Zero3,
                        !.mu_ready[i] = TRUE]
        ELSE LET raw_mu_dot == VQuot(VSub(mu, st.mu_prev[i]), dt)
                 beta   == FilterBeta(p.mu_dot_filter)
                 mu_dot == VAdd(VScale(beta, st.mu_dot_prev[i]), VScale(1 - beta, raw_mu_dot))
                 sv     == VAdd(mu_dot, VScale(p.do_kappa1, st.p_state[i]))
                 p_dot  == VAdd(VScale(p.do_kappa2, sig_pow_vec(mu_dot, p.do_n1, p.smooth_eps)),
                                VScale(p.do_kappa3, sig_pow_vec(mu_dot, p.do_n2, p.smooth_eps)))
                 theta_dot == VAdd(VAdd(VScale(p.do_kappa1, p_dot),
                                        VScale(p.do_eta1, sig_pow_vec(sv, p.do_n1, p.smooth_eps))),
                                   VAdd(VScale(p.do_eta2, sig_pow_vec(sv, p.do_n2, p.smooth_eps)),
                                        VScale(p.do_eta3, sign_vec(sv, p.smooth_eps))))
             IN  [st EXCEPT !.v_hat[i] = v_hat,
                            !.p_state[i] = VAdd(st.p_state[i], VScale(dt, p_dot)),
                            !.theta_hat[i] = VAdd(st.theta_hat[i], VScale(dt, theta_dot)),
                            !.mu_prev[i] = mu, !.mu_dot_prev[i] = mu_dot]

\* FormationEcbf::update_attitude
update_attitude(st, p, i, u, mass) ==
    LET psi     == p.desired_yaw
        sin_psi == SinQ(psi)
        cos_psi == CosQ(psi)
        uz      == u[3] + p.gravity
        \* .max(1.0e-6): the least positive grid value
        t       == Max2(ISqrt(u[1] * u[1] + u[2] * u[2] + uz * uz), 1)
        phi     == AsinQ(Quot(u[1] * sin_psi - u[2] * cos_psi, t))
        theta   == Atan2Q(u[1] * cos_psi + u[2] * sin_psi, uz)
    IN  [st EXCEPT !.attitudes[i] = <<phi, theta, psi>>, !.thrusts[i] = t * mass]

\* the constraints one obstacle contributes in FormationEcbf::build_constraints
EcbfObstacleConstraints(p, ob, pos, vel, gamma, theta_hat, t) ==
    LET pi1  == p.lambda1 * p.lambda2
        pi2  == p.lambda1 + p.lambda2
        r    == VSub(pos, ObPos(ob, t))
        r2   == Norm2(r)
        h    == r2 - ob.d * ob.d
        vrel == IF p.use_moving_obstacle_terms THEN VSub(vel, ObVel(ob, t)) ELSE vel
        aob  == IF p.use_moving_obstacle_terms THEN ObAcc(ob) ELSE Zero3
        lfh  == 2 * VDot(r, vrel)
        c    == 2 * VDot(vrel, vrel) + 2 * VDot(r, VSub(VScale(gamma, vel), aob))
        delta1 == 2 * Norm(r) * (Norm(theta_hat) + p.delta_theta)
        phi  == pi1 * h + pi2 * lfh - delta1
        xi1  == 1 + p.delta2_star
        xi2  == 1 - p.delta2_star
        c1   == Halfspace(VScale(2 * xi1, r), -phi - xi1 * c)
        c2   == Halfspace(VScale(2 * xi2, r), -phi - xi2 * c)
    IN  \* r2 < 1.0e-10: the obstacle centre itself
        IF r2 <= 0 THEN <<>>
        ELSE IF p.delta2_star > 0 THEN <<c1, c2>> ELSE <<c1>>

\* FormationEcbf::build_constraints
build_constraints(p, pos, vel, gamma, theta_hat, t) ==
    Flatten([k \in 1..Len(p.obstacles) |->
                EcbfObstacleConstraints(p, p.obstacles[k], pos, vel, gamma, theta_hat, t)])

\* FormationEcbf::formation_offset
formation_offset(st, i) == IF i <= Len(st.formation_offsets) THEN st.formation_offsets[i] ELSE Zero3

\* the body of the loop over i of FormationEcbf::apply, on the controller state st and
\* the simulator s as they stand when agent i is reached
EcbfAgent(st, s, p, i, P, V, dt, t, plane) ==
    LET pos     == P[i]
        vel     == V[i]
        mass    == Max2(s.mass[i], 1)
        gamma   == Quot(-s.drag[i], mass)
        gamma_v == VScale(gamma, vel)
        p_star  == formation_offset(st, i)
        z1      == VSub(VSub(pos, st.chi[i]), p_star)
        alpha   == compute_alpha(p, z1, st.varsigma[i])
        ad      == update_alpha_dot(st, p, i, alpha, dt)
        z2      == VSub(vel, alpha)
        u_nom   == VSub(VSub(VAdd(VSub(VSub(VSub(VNeg(VScale(p.k2, z2)), z1),
                                            VScale(p.gamma1, sig_pow_vec(z2, EcbfA1(p), p.smooth_eps))),
                                       VScale(p.gamma2, sig_pow_vec(z2, EcbfA2(p), p.smooth_eps))),
                                  ad.out),
                             ad.state.theta_hat[i]),
                        gamma_v)
        cons    == build_constraints(p, pos, vel, gamma, ad.state.theta_hat[i], t)
        u       == PlaneOutput(project_qp3(u_nom, p.u_min, p.u_max, cons, p.qp_iters), plane)
        st1     == update_attitude(ad.state, p, i, u, mass)
    IN  [state |-> update_disturbance_observer(st1, p, i, vel, u, gamma_v, dt),
         sim   |-> SimSetForce(s, i, VScale(mass, u))]

RECURSIVE EcbfLoop(_, _, _, _, _, _, _, _, _)
\* agents lo..hi of the loop, in index order
EcbfLoop(r, p, lo, hi, P, V, dt, t, plane) ==
    IF lo > hi THEN r
    ELSE IF lo = hi THEN EcbfAgent(r.state, r.sim, p, lo, P, V, dt, t, plane)
    ELSE LET mid  == (lo + hi) \div 2
             half == EcbfLoop(r, p, lo, mid, P, V, dt, t, plane)
         IN  Then(half, EcbfLoop(half, p, mid + 1, hi, P, V, dt, t, plane))

\* FormationEcbf::apply: the controller and the simulator it leaves, and the
\* leader sample it queried (none when it returns early)
FormationEcbfApply(algo, s, plane) ==
    LET n  == SimLen(s)
        dt == s.dt
    IN  IF n = 0 \/ ~IsFinite(dt) \/ dt <= 0
        THEN [algo |-> algo, sim |-> s, leader |-> <<>>]
        ELSE LET t   == s.time
                 P   == ControllerView(s.x, plane)
                 V   == ControllerView(s.v, plane)
                 ls  == leader_state(algo, t)
                 p0  == ls.out[1]
                 v0  == ls.out[2]
                 st1 == ensure_state(ls.state, n, V, p0, v0)
                 st2 == ensure_offsets(st1, algo.params, P, p0)
                 st3 == update_distributed_observer(st2, algo.params, n, dt, p0, v0)
                 r   == EcbfLoop([state |-> st3, sim |-> s], algo.params, 1, n, P, V, dt, t, plane)
             IN  [algo |-> [algo EXCEPT !.state = r.state], sim |-> r.sim, leader |-> <<ls.out>>]

\* a reset that re-zeroes the disturbance observer of every agent
EcbfResetEveryAgent(algo, index, vel) ==
    IF index > Len(algo.state.chi) THEN algo
    ELSE [algo EXCEPT !.state.v_hat = Concrete(Fill(Len(algo.state.chi), vel)),
                      !.state.theta_hat = Concrete(Fill(Len(algo.state.chi), Zero3)),
                      !.state.mu_ready = Concrete(Fill(Len(algo.state.chi), FALSE)),
                      !.state.alpha_ready = Concrete(Fill(Len(algo.state.chi), FALSE))]

\* FormationEcbf::reset_agent
EcbfResetAgent(algo, index, vel) ==
    IF index > Len(algo.state.chi) THEN algo
    ELSE [algo EXCEPT !.state.v_hat[index] = vel,
                      !.state.theta_hat[index] = Zero3,
                      !.state.p_state[index] = Zero3,
                      !.state.mu_prev[index] = Zero3,
                      !.state.mu_dot_prev[index] = Zero3,
                      !.state.alpha_prev[index] = vel,
                      !.state.alpha_dot_prev[index] = Zero3,
                      !.state.mu_ready[index] = FALSE,
                      !.state.alpha_ready[index] = FALSE]

\* FormationEcbf::attitudes_flat
EcbfAttitudesFlat(algo) ==
    [k \in 1..(3 * Len(algo.state.attitudes)) |-> algo.state.attitudes[((k - 1) \div 3) + 1][((k - 1) % 3) + 1]]

---------------------------------------------------------------------------
(* algorithms/safe_flocking_alpha.rs: alpha-lattice nominal + CBF-QP filter *)
(* Its DEFAULT_SAFE_ALPHA_* constants and its private sigma_norm_scalar,    *)
(* bump_rho, sigma1, uneven_phi and phi_alpha repeat flocking_alpha.rs.     *)

DEFAULT_SAFE_ALPHA_NEIGHBOR_RADIUS == 3
DEFAULT_SAFE_ALPHA_DESIRED_DISTANCE == 1
DEFAULT_SAFE_ALPHA_SIGMA_EPS == 1
DEFAULT_SAFE_ALPHA_BUMP_H == 0
DEFAULT_SAFE_ALPHA_PHI_A == 5
DEFAULT_SAFE_ALPHA_PHI_B == 5
DEFAULT_SAFE_ALPHA_WEIGHT == 1
DEFAULT_SAFE_ALPHA_ALIGNMENT_WEIGHT == 1

\* DEFAULT_QP_ITERS of safe_flocking_alpha.rs
DEFAULT_SAFE_QP_ITERS == 14

\* SafeFlockAlphaParams::default
SafeFlockAlphaParamsDefault ==
    [neighbor_radius  |-> DEFAULT_SAFE_ALPHA_NEIGHBOR_RADIUS,
     desired_distance |-> DEFAULT_SAFE_ALPHA_DESIRED_DISTANCE,
     sigma_eps        |-> DEFAULT_SAFE_ALPHA_SIGMA_EPS,
     bump_h           |-> DEFAULT_SAFE_ALPHA_BUMP_H,
     phi_a            |-> DEFAULT_SAFE_ALPHA_PHI_A,
     phi_b            |-> DEFAULT_SAFE_ALPHA_PHI_B,
     alpha_weight     |-> DEFAULT_SAFE_ALPHA_WEIGHT,
     alignment_weight |-> DEFAULT_SAFE_ALPHA_ALIGNMENT_WEIGHT,
     boundary_radius  |-> DEFAULT_BOUNDARY_RADIUS,
     boundary_weight  |-> DEFAULT_BOUNDARY_WEIGHT,
     max_speed        |-> DEFAULT_MAX_SPEED,
     max_force        |-> DEFAULT_MAX_FORCE,
     speed_limit      |-> DEFAULT_SPEED_LIMIT,
     use_obstacles |-> TRUE, use_agent_cbf |-> TRUE,
     agent_safe_distance |-> 1, cbf_neighbor_radius |-> 3,
     lambda1 |-> 2, lambda2 |-> 2, delta_theta |-> 0, delta2_star |-> 0,
     use_moving_obstacle_terms |-> TRUE, two_pass |-> FALSE,
     u_min |-> <<-6, -6, -6>>, u_max |-> <<6, 6, 6>>,
     slack_weight |-> 50, slack_max |-> 50,
     smooth_eps |-> 0, qp_iters |-> DEFAULT_SAFE_QP_ITERS,
     obstacles |-> paper_obstacles]

\* SafeFlockAlphaState::default
SafeFlockAlphaStateDefault == [u_nom |-> <<>>, u_safe |-> <<>>, slack |-> <<>>, active |-> <<>>, total |-> <<>>]

\* SafeFlockingAlpha::new
SafeFlockingAlphaNew(params) ==
    [kind |-> "SafeFlockingAlpha", params |-> params, state |-> SafeFlockAlphaStateDefault]

\* SafeFlockingAlpha::ensure_state
safe_ensure_state(st, n) ==
    IF Len(st.u_nom) = n THEN st
    ELSE [u_nom |-> Fill(n, Zero3), u_safe |-> Fill(n, Zero3),
          slack |-> Fill(n, 0), active |-> Fill(n, 0), total |-> Fill(n, 0)]

\* SafeFlockingAlpha::compute_nominal: the u_nom it stores
compute_nominal(p, P, V, plane) == [i \in 1..Len(P) |-> AlphaForce(P, V, i, p, plane)]

\* the half-spaces one obstacle contributes in filter_u
SafeObstacleConstraints(p, ob, p_i, v_i, gamma_i, t, slack_coef) ==
    LET lambda1 == Max2(p.lambda1, 0)
        lambda2 == Max2(p.lambda2, 0)
        pi1  == lambda1 * lambda2
        pi2  == lambda1 + lambda2
        r    == VSub(p_i, ObPos(ob, t))
        r2   == Norm2(r)
        h    == r2 - ob.d * ob.d
        vrel == IF p.use_moving_obstacle_terms THEN VSub(v_i, ObVel(ob, t)) ELSE v_i
        aob  == IF p.use_moving_obstacle_terms THEN ObAcc(ob) ELSE Zero3
        lfh  == 2 * VDot(r, vrel)
        c    == 2 * VDot(vrel, vrel) + 2 * VDot(r, VSub(VScale(gamma_i, v_i), aob))
        delta1 == 2 * Norm(r) * Max2(p.delta_theta, 0)
        phi  == pi1 * h + pi2 * lfh - delta1
        xi1  == 1 + p.delta2_star
        xi2  == 1 - p.delta2_star
        c1   == Halfspace(VScale(2 * xi1, r) \o <<slack_coef>>, -phi - xi1 * c)
        c2   == Halfspace(VScale(2 * xi2, r) \o <<slack_coef>>, -phi - xi2 * c)
    IN  IF r2 <= 0 THEN <<>>
        ELSE IF p.delta2_star > 0 THEN <<c1, c2>> ELSE <<c1>>

\* the half-space neighbour j contributes to agent i in filter_u (none beyond the radius)
SafeAgentConstraint(p, s, i, j, P, V, gamma_i, u_pred, u_nom, slack_coef) ==
    LET lambda1 == Max2(p.lambda1, 0)
        lambda2 == Max2(p.lambda2, 0)
        pi1  == lambda1 * lambda2
        pi2  == lambda1 + lambda2
        rr   == IF ~IsFinite(p.cbf_neighbor_radius) \/ p.cbf_neighbor_radius <= 0
                THEN Max2(p.neighbor_radius, 0) ELSE p.cbf_neighbor_radius
        d_safe2 == Max2(p.agent_safe_distance, 0) * Max2(p.agent_safe_distance, 0)
        r    == VSub(P[i], P[j])
        r2   == Norm2(r)
        vrel == VSub(V[i], V[j])
        mass_j  == Max2(s.mass[j], 1)
        gamma_j == Quot(-s.drag[j], mass_j)
        u_j  == IF j <= Len(u_pred) THEN u_pred[j] ELSE u_nom[j]
        h    == r2 - d_safe2
        lfh  == 2 * VDot(r, vrel)
        c    == 2 * VDot(vrel, vrel)
                + 2 * VDot(r, VSub(VSub(VScale(gamma_i, V[i]), VScale(gamma_j, V[j])), u_j))
    IN  IF j = i \/ r2 <= 0 \/ r2 > rr * rr THEN <<>>
        ELSE << Halfspace(VScale(2, r) \o <<slack_coef>>, -(c + pi1 * h + pi2 * lfh)) >>

\* SafeFlockingAlpha::filter_u
filter_u(p, s, i, t, P, V, gamma_i, u_nom, u_pred) ==
    LET \* slack_weight.max(1.0e-6).sqrt()
        sigma      == ISqrt(Max2(p.slack_weight, 1))
        slack_coef == Quot(1, sigma)
        obs  == IF p.use_obstacles
                THEN Flatten([k \in 1..Len(p.obstacles) |->
                            SafeObstacleConstraints(p, p.obstacles[k], P[i], V[i], gamma_i, t, slack_coef)])
                ELSE <<>>
        ags  == IF p.use_agent_cbf /\ Len(P) = Len(V)
                THEN Flatten([j \in 1..Len(P) |->
                            SafeAgentConstraint(p, s, i, j, P, V, gamma_i, u_pred, u_nom, slack_coef)])
                ELSE <<>>
        constraints == obs \o ags
        y_nom   == u_nom[i] \o <<0>>
        box_min == p.u_min \o <<0>>
        box_max == p.u_max \o <<sigma * Max2(p.slack_max, 0)>>
        y       == project_qp4(y_nom, box_min, box_max, constraints, p.qp_iters)
        \* tol = 1.0e-3: a margin at or below it is a margin <= 0 on the grid
        active  == Cardinality({k \in 1..Len(constraints) :
                                   SVDot(constraints[k].a, y) - constraints[k].b <= 0})
    IN  [u |-> <<y[1], y[2], y[3]>>, slack |-> Max2(Quot(y[4], sigma), 0),
         active |-> active, total |-> Len(constraints)]

\* the neighbour prediction apply starts from
UPred(t, st) == IF t <= 0 THEN st.u_nom ELSE st.u_safe

\* if plane_2d { u_i.z = 0.0; }
SafePlaneOutput(f, plane) == [f EXCEPT !.u = PlaneOutput(f.u, plane)]

\* one pass of the filter over the agents
SafePass(p, s, t, P, V, u_nom, u_pred, plane) ==
    Concrete([i \in 1..Len(P) |->
                 SafePlaneOutput(filter_u(p, s, i, t, P, V, Quot(-s.drag[i], Max2(s.mass[i], 1)),
                                          u_nom, u_pred), plane)])

\* u_pred.clone_from_slice(&self.state.u_safe)
SafeCommands(res) == Concrete([i \in 1..Len(res) |-> res[i].u])

RECURSIVE SafePasses(_, _, _, _, _, _, _, _, _)
RECURSIVE SafeNextPass(_, _, _, _, _, _, _, _, _)
\* for pass in 0..passes: the filtered commands of the last pass
SafePasses(p, s, t, P, V, u_nom, u_pred, plane, left) ==
    SafeNextPass(p, s, t, P, V, u_nom, SafePass(p, s, t, P, V, u_nom, u_pred, plane), plane, left)

\* a pass returned res
SafeNextPass(p, s, t, P, V, u_nom, res, plane, left) ==
    IF left <= 1 THEN res
    ELSE SafePasses(p, s, t, P, V, u_nom, SafeCommands(res), plane, left - 1)

\* the tail of apply: the filtered commands are stored and written as forces
SafeStore(algo, s, st2, u_pred, res) ==
    LET n == SimLen(s)
    IN  [algo   |-> [algo EXCEPT !.state =
                        [st2 EXCEPT !.u_safe = SafeCommands(res),
                                    !.slack  = [i \in 1..n |-> res[i].slack],
                                    !.active = [i \in 1..n |-> res[i].active],
                                    !.total  = [i \in 1..n |-> res[i].total]]],
         sim    |-> WriteForces(s, [i \in 1..n |-> VScale(Max2(s.mass[i], 1), res[i].u)]),
         u_nom  |-> st2.u_nom,
         u_pred |-> u_pred]

\* the passes of apply, from the prediction u_pred
SafeFilter(algo, s, plane, P, V, st2, u_pred) ==
    SafeStore(algo, s, st2, u_pred,
              SafePasses(algo.params, s, s.time, P, V, st2.u_nom, u_pred, plane,
                         IF algo.params.two_pass THEN 2 ELSE 1))

\* the nominal commands are stored, then the prediction is chosen
SafePredict(algo, s, plane, P, V, st2) == SafeFilter(algo, s, plane, P, V, st2, UPred(s.time, st2))

\* apply past its early return, on the state ensure_state left
SafeNominal(algo, s, plane, P, V, st1) ==
    SafePredict(algo, s, plane, P, V,
                [st1 EXCEPT !.u_nom = Concrete(compute_nominal(algo.params, P, V, plane))])

\* SafeFlockingAlpha::apply: the controller and the simulator it leaves, and the
\* nominal commands and the prediction of this call (none when it returns early)
SafeFlockingAlphaApply(algo, s, plane) ==
    LET n  == SimLen(s)
        dt == s.dt
    IN  IF n = 0 \/ ~IsFinite(dt) \/ dt <= 0
        THEN [algo |-> algo, sim |-> s, u_nom |-> <<>>, u_pred |-> <<>>]
        ELSE SafeNominal(algo, s, plane, ControllerView(s.x, plane), ControllerView(s.v, plane),
                         safe_ensure_state(algo.state, n))

---------------------------------------------------------------------------
(* models/particles.rs: the demo scenes and configs_from_states            *)

DEMO_COUNT == 20

\* 1/60 s: one positive step of the time grid
DEMO_DT == 2

\* 0.08, below half a grid unit
DEMO_DRAG == 0

\* a configs_from_states that reads each agent as [vx,vy,vz,x,y,z]
configs_from_states_velocity_first(states, drag_coefficient) ==
    IF Len(states) % 6 # 0 THEN [ok |-> FALSE, configs |-> <<>>]
    ELSE [ok |-> TRUE,
          configs |-> [i \in 1..(Len(states) \div 6) |->
                          BodyConfig(1, [k \in 1..6 |-> states[(i - 1) * 6 + ((k + 2) % 6) + 1]],
                                     drag_coefficient, FALSE, 0)]]

\* configs_from_states: Err on a length that is not a multiple of 6
configs_from_states(states, drag_coefficient) ==
    IF Len(states) % 6 # 0 THEN [ok |-> FALSE, configs |-> <<>>]
    ELSE [ok |-> TRUE,
          configs |-> [i \in 1..(Len(states) \div 6) |->
                          BodyConfig(1, [k \in 1..6 |-> states[(i - 1) * 6 + k]],
                                     drag_coefficient, FALSE, 0)]]

\* ParticleModel::from_states
ParticleModelFromStates(states, dt, drag_coefficient) ==
    LET c == configs_from_states(states, drag_coefficient)
    IN  [ok |-> c.ok, model |-> ParticleModelNew(c.configs, dt)]

\* ring_demo_configs: agent i sits at the quarter turn nearest to its angle on the
\* ring of radius 14.5 * wobble (wobble and speed round to 1, vz to 0)
ring_demo_configs(count) ==
    [k \in 1..count |->
        LET i  == k - 1
            q  == Quot(4 * i, count)
            x  == 15 * CosQ(q)
            y  == 15 * SinQ(q)
            z  == Quot((i % 8) * 35 - 122, 100)
            tn == ISqrt(y * y + x * x)
            tangent == IF tn > 0 THEN <<Quot(-y, tn), Quot(x, tn), 0>> ELSE <<1, 0, 0>>
        IN  BodyConfig(1, <<x, y, z, tangent[1], tangent[2], tangent[3]>>, DEMO_DRAG, FALSE, 0)]

\* lattice_demo_configs: spacing 1.4 rounds to 1, drag 0.02 to 0
lattice_demo_configs(side) ==
    LET spacing == 1
        origin  == Quot((side - 1) * spacing, 2)
    IN  [k \in 1..(side * side * side) |->
            LET ix == (k - 1) \div (side * side)
                iy == ((k - 1) \div side) % side
                iz == (k - 1) % side
            IN  BodyConfig(1, <<ix * spacing - origin, iy * spacing - origin, iz * spacing - origin,
                                0, 0, 0>>, 0, FALSE, 0)]

\* quadrotor_demo_configs: four agents at rest on the paper's formation offsets
quadrotor_demo_configs ==
    [k \in 1..4 |->
        BodyConfig(1, FormationEcbfParamsDefault.formation_offsets[k] \o Zero3, 0, FALSE, 0)]

---------------------------------------------------------------------------
(* engine.rs                                                               *)

MODEL_RING == "ring-swarm"
MODEL_LATTICE == "lattice-swarm"
MODEL_QUADROTOR == "quadrotor-swarm"
MODEL_FROM_STATES == "from-states"

ALGO_NONE == "none"
ALGO_FLOCKING == "flocking"
ALGO_FLOCKING_ALPHA == "flocking-alpha"
ALGO_FORMATION_ECBF == "formation-ecbf"
ALGO_SAFE_FLOCKING_ALPHA == "safe-flocking-alpha"

\* algorithm_catalog: the compatible_models of each entry (none for an id not listed)
algorithm_catalog(id) ==
    CASE id = ALGO_NONE                -> {MODEL_RING, MODEL_LATTICE, MODEL_FROM_STATES}
      [] id = ALGO_FLOCKING            -> {MODEL_RING, MODEL_LATTICE, MODEL_FROM_STATES}
      [] id = ALGO_FLOCKING_ALPHA      -> {MODEL_RING, MODEL_LATTICE, MODEL_FROM_STATES}
      [] id = ALGO_FORMATION_ECBF      -> {MODEL_RING, MODEL_LATTICE, MODEL_QUADROTOR, MODEL_FROM_STATES}
      [] id = ALGO_SAFE_FLOCKING_ALPHA -> {MODEL_RING, MODEL_LATTICE, MODEL_FROM_STATES}
      [] OTHER -> {}

\* Option<&'static str>
NoId == [some |-> FALSE, id |-> ""]

SomeId(id) == [some |-> TRUE, id |-> id]

\* normalize_model_id
normalize_model_id(id) ==
    IF id \in {MODEL_RING, MODEL_LATTICE, MODEL_QUADROTOR, MODEL_FROM_STATES} THEN SomeId(id) ELSE NoId

\* a normalize_algorithm_id that falls back to the default controller
normalize_algorithm_id_or_default(id) ==
    IF id \in {ALGO_NONE, ALGO_FLOCKING, ALGO_FLOCKING_ALPHA, ALGO_FORMATION_ECBF,
               ALGO_SAFE_FLOCKING_ALPHA}
    THEN SomeId(id) ELSE SomeId(ALGO_FLOCKING)

\* normalize_algorithm_id
normalize_algorithm_id(id) ==
    IF id \in {ALGO_NONE, ALGO_FLOCKING, ALGO_FLOCKING_ALPHA, ALGO_FORMATION_ECBF,
               ALGO_SAFE_FLOCKING_ALPHA}
    THEN SomeId(id) ELSE NoId

\* AlgorithmKind::None
AlgorithmNone == [kind |-> "None", params |-> <<>>, state |-> <<>>]

\* Flocking::new
FlockingNew(params) == [kind |-> "Flocking", params |-> params, state |-> <<>>]

\* FlockingAlpha::new
FlockingAlphaNew(params) == [kind |-> "FlockingAlpha", params |-> params, state |-> <<>>]

\* a build_algorithm that checks only that the id is in the catalog
CompatibleAnyModel(id, mid) == algorithm_catalog(id) # {}

\* the compatibility test of build_algorithm
Compatible(id, mid) == mid \in algorithm_catalog(id)

\* build_algorithm
build_algorithm(id, mid) ==
    IF ~Compatible(id, mid) THEN [ok |-> FALSE, algorithm |-> AlgorithmNone]
    ELSE CASE id = ALGO_NONE -> [ok |-> TRUE, algorithm |-> AlgorithmNone]
           [] id = ALGO_FLOCKING -> [ok |-> TRUE, algorithm |-> FlockingNew(FlockParamsDefault)]
           [] id = ALGO_FLOCKING_ALPHA ->
                 [ok |-> TRUE, algorithm |-> FlockingAlphaNew(FlockAlphaParamsDefault)]
           [] id = ALGO_FORMATION_ECBF ->
                 [ok |-> TRUE, algorithm |-> FormationEcbfNew(FormationEcbfParamsDefault)]
           [] id = ALGO_SAFE_FLOCKING_ALPHA ->
                 [ok |-> TRUE, algorithm |-> SafeFlockingAlphaNew(SafeFlockAlphaParamsDefault)]
           [] OTHER -> [ok |-> FALSE, algorithm |-> AlgorithmNone]

\* build_model
build_model(mid) ==
    CASE mid = MODEL_RING ->
            [ok |-> TRUE, model |-> ParticleModelNew(ring_demo_configs(Min2(DEMO_COUNT, MaxScene)), DEMO_DT),
             default_algorithm |-> ALGO_FLOCKING]
      [] mid = MODEL_LATTICE ->
            [ok |-> TRUE, model |-> ParticleModelNew(lattice_demo_configs(Min2(3, MaxSide)), DEMO_DT),
             default_algorithm |-> ALGO_FLOCKING]
      [] mid = MODEL_QUADROTOR ->
            [ok |-> TRUE, model |-> ParticleModelNew(quadrotor_demo_configs, DEMO_DT),
             default_algorithm |-> ALGO_FORMATION_ECBF]
      [] OTHER -> [ok |-> FALSE, model |-> ParticleModelNew(<<>>, 0), default_algorithm |-> ""]

\* the result of a constructor: Err, or Ok(Engine)
EngineErr ==
    [ok |-> FALSE, model_id |-> "", algorithm_id |-> "", model |-> ParticleModelNew(<<>>, 0),
     algorithm |-> AlgorithmNone, plane_2d |-> FALSE]

EngineOk(mid, aid, model, algo, plane) ==
    [ok |-> TRUE, model_id |-> mid, algorithm_id |-> aid, model |-> model,
     algorithm |-> algo, plane_2d |-> plane]

\* Engine::new_builtin   (algorithm_id is an Option: NoId, or SomeId(id))
new_builtin(mid_in, aid_in) ==
    LET mid == normalize_model_id(mid_in)
        bm  == build_model(mid.id)
        aid == IF aid_in.some THEN normalize_algorithm_id(aid_in.id) ELSE SomeId(bm.default_algorithm)
        ba  == build_algorithm(aid.id, mid.id)
    IN  IF ~mid.some \/ ~bm.ok \/ ~aid.some \/ ~ba.ok THEN EngineErr
        ELSE EngineOk(mid.id, aid.id, bm.model, ba.algorithm, FALSE)

\* Engine::new_custom
new_custom(configs, dt, aid_in, plane) ==
    LET aid == normalize_algorithm_id(IF aid_in.some THEN aid_in.id ELSE ALGO_FLOCKING)
        ba  == build_algorithm(aid.id, MODEL_FROM_STATES)
    IN  IF ~aid.some \/ ~ba.ok THEN EngineErr
        ELSE EngineOk(MODEL_FROM_STATES, aid.id, ParticleModelNew(configs, dt), ba.algorithm, plane)

\* Engine::new_from_states
new_from_states(states, dt, aid_in) ==
    LET pm  == ParticleModelFromStates(states, dt, 0)
        aid == IF aid_in.some THEN normalize_algorithm_id(aid_in.id) ELSE SomeId(ALGO_FLOCKING)
        ba  == build_algorithm(aid.id, MODEL_FROM_STATES)
    IN  IF ~pm.ok \/ ~aid.some \/ ~ba.ok THEN EngineErr
        ELSE EngineOk(MODEL_FROM_STATES, aid.id, pm.model, ba.algorithm, FALSE)

\* controller.apply, whichever variant is installed: the controller and the simulator it
\* leaves, whether it got past its early returns, and what it computed on the way
EcbfApplied(r) ==
    [algo |-> r.algo, sim |-> r.sim, ran |-> r.leader # <<>>,
     u_nom |-> <<>>, u_pred |-> <<>>, leader |-> r.leader]

SafeApplied(r) ==
    [algo |-> r.algo, sim |-> r.sim, ran |-> r.u_pred # <<>>,
     u_nom |-> r.u_nom, u_pred |-> r.u_pred, leader |-> <<>>]

Apply(algo, s, plane) ==
    CASE algo.kind = "Flocking" ->
            [algo |-> algo, sim |-> FlockingApply(algo, s, plane), ran |-> SimLen(s) > 0,
             u_nom |-> <<>>, u_pred |-> <<>>, leader |-> <<>>]
      [] algo.kind = "FlockingAlpha" ->
            [algo |-> algo, sim |-> FlockingAlphaApply(algo, s, plane), ran |-> SimLen(s) > 0,
             u_nom |-> <<>>, u_pred |-> <<>>, leader |-> <<>>]
      [] algo.kind = "FormationEcbf" -> EcbfApplied(FormationEcbfApply(algo, s, plane))
      [] algo.kind = "SafeFlockingAlpha" -> SafeApplied(SafeFlockingAlphaApply(algo, s, plane))
      [] OTHER ->
            [algo |-> algo, sim |-> s, ran |-> FALSE, u_nom |-> <<>>, u_pred |-> <<>>, leader |-> <<>>]

\* if self.plane_2d { model.flatten_to_plane(); }
FlattenIf(plane) == IF plane THEN <<"flatten">> ELSE <<>>

\* a tick whose arms leave out the flatten after the step
TickArmNoTrailingFlatten(kind, plane) ==
    IF kind \in {"Flocking", "FlockingAlpha", "FormationEcbf", "SafeFlockingAlpha"}
    THEN FlattenIf(plane) \o <<"apply", "step">>
    ELSE FlattenIf(plane) \o <<"step">>

\* Engine::tick: the statements of the match arm taken, in program order
TickArm(kind, plane) ==
    CASE kind = "Flocking"          -> FlattenIf(plane) \o <<"apply", "step">> \o FlattenIf(plane)
      [] kind = "FlockingAlpha"     -> FlattenIf(plane) \o <<"apply", "step">> \o FlattenIf(plane)
      [] kind = "FormationEcbf"     -> FlattenIf(plane) \o <<"apply", "step">> \o FlattenIf(plane)
      [] kind = "SafeFlockingAlpha" -> FlattenIf(plane) \o <<"apply", "step">> \o FlattenIf(plane)
      [] OTHER                      -> FlattenIf(plane) \o <<"step">> \o FlattenIf(plane)

\* Engine::step: the statements of its body
StepArm(plane) == FlattenIf(plane) \o <<"step">> \o FlattenIf(plane)

\* what a run of statements has done so far
RunStart(algo, s) ==
    [algo |-> algo, sim |-> s, stages |-> <<>>, fx |-> <<>>, ran |-> FALSE,
     u_nom |-> <<>>, u_pred |-> <<>>, leader |-> <<>>, model |-> <<>>]

\* algo.apply(model, self.plane_2d) returned r; model keeps the simulator apply was
\* given and the simulator it left
ApplyStatement(c, r) ==
    [c EXCEPT !.algo = r.algo, !.sim = r.sim, !.ran = r.ran, !.u_nom = r.u_nom,
              !.u_pred = r.u_pred, !.leader = r.leader, !.stages = Append(c.stages, "apply"),
              !.model = <<c.sim, r.sim>>]

\* one statement of an arm
RunStatement(c, stmt, plane) ==
    CASE stmt = "flatten" ->
            [c EXCEPT !.sim = flatten_to_plane(c.sim), !.stages = Append(c.stages, stmt)]
      [] stmt = "apply" -> ApplyStatement(c, Apply(c.algo, c.sim, plane))
      [] OTHER ->
            [c EXCEPT !.sim = SimStep(c.sim), !.fx = StepForces(c.sim),
                      !.stages = Append(c.stages, stmt)]

RECURSIVE RunArm(_, _, _, _)
RECURSIVE RunRest(_, _, _, _)
\* the statements of an arm from the k-th on
RunArm(c, arm, k, plane) ==
    IF k > Len(arm) THEN c ELSE RunRest(RunStatement(c, arm[k], plane), arm, k + 1, plane)

\* statement k - 1 left done; the rest follows
RunRest(done, arm, k, plane) == Then(done, RunArm(done, arm, k, plane))

\* Engine::tick
EngineTick(algo, s, plane) == RunArm(RunStart(algo, s), TickArm(algo.kind, plane), 1, plane)

\* Engine::step
EngineStep(algo, s, plane) == RunArm(RunStart(algo, s), StepArm(plane), 1, plane)

\* a set_algorithm that installs the controller and forgets to store its id
set_algorithm_keeps_id(id_in, mid, algo, aid) ==
    LET id == normalize_algorithm_id(id_in)
    IN  IF ~id.some \/ ~build_algorithm(id.id, mid).ok
        THEN [ok |-> FALSE, algorithm |-> algo, algorithm_id |-> aid]
        ELSE [ok |-> TRUE, algorithm |-> build_algorithm(id.id, mid).algorithm, algorithm_id |-> aid]

\* a set_algorithm that keeps the installed controller when the id is the active one
set_algorithm_same_id_kept(id_in, mid, algo, aid) ==
    LET id == normalize_algorithm_id(id_in)
        ba == build_algorithm(id.id, mid)
    IN  IF ~id.some \/ ~ba.ok
        THEN [ok |-> FALSE, algorithm |-> algo, algorithm_id |-> aid]
        ELSE IF id.id = aid
        THEN [ok |-> TRUE, algorithm |-> algo, algorithm_id |-> aid]
        ELSE [ok |-> TRUE, algorithm |-> ba.algorithm, algorithm_id |-> id.id]

\* Engine::set_algorithm: Err leaves the engine as it was
set_algorithm(id_in, mid, algo, aid) ==
    LET id == normalize_algorithm_id(id_in)
        ba == build_algorithm(id.id, mid)
    IN  IF ~id.some \/ ~ba.ok
        THEN [ok |-> FALSE, algorithm |-> algo, algorithm_id |-> aid]
        ELSE [ok |-> TRUE, algorithm |-> ba.algorithm, algorithm_id |-> id.id]

\* a parameter setter that does not look at the variant installed
set_params_any_variant(kind, algo, params) ==
    [ok |-> TRUE, algorithm |-> [algo EXCEPT !.params = params]]

\* Engine::set_flock_params, set_flock_alpha_params, set_formation_ecbf_params,
\* set_safe_flocking_alpha_params: kind is the variant the setter matches
set_params(kind, algo, params) ==
    IF algo.kind = kind
    THEN [ok |-> TRUE, algorithm |-> [algo EXCEPT !.params = params]]
    ELSE [ok |-> FALSE, algorithm |-> algo]

\* Engine::reset_agent
reset_agent(algo, index, pos, vel) ==
    IF algo.kind = "FormationEcbf" THEN EcbfResetAgent(algo, index, vel) ELSE algo

\* Engine::attitudes_flat
attitudes_flat(algo) == IF algo.kind = "FormationEcbf" THEN EcbfAttitudesFlat(algo) ELSE <<>>

\* the cast `as f32`: an integer of the grid is kept up to 2^24 in magnitude and
\* loses its low bits beyond that
RECURSIVE AsF32(_)
AsF32(a) == IF Abs(a) <= 16777216 THEN a ELSE 2 * AsF32(Quot(a, 2))

\* Engine::positions_flat
positions_flat(s) == Flatten([i \in 1..SimLen(s) |-> [k \in 1..3 |-> AsF32(s.x[i][k])]])

\* Engine::state_matrix_flat
state_matrix_flat(s) ==
    Flatten([i \in 1..SimLen(s) |-> [k \in 1..3 |-> AsF32(s.x[i][k])] \o [k \in 1..3 |-> AsF32(s.v[i][k])]])

---------------------------------------------------------------------------
(* The inputs a host passes to the engine                                  *)

ModelIdInputs == {MODEL_RING, MODEL_LATTICE, MODEL_QUADROTOR, MODEL_FROM_STATES, "mesh-swarm"}

AlgorithmIdInputs ==
    {ALGO_NONE, ALGO_FLOCKING, ALGO_FLOCKING_ALPHA, ALGO_FORMATION_ECBF, ALGO_SAFE_FLOCKING_ALPHA,
     "boids"}

OptionalAlgorithmId == {NoId} \cup {SomeId(id) : id \in AlgorithmIdInputs}

\* negative, zero and positive steps
DtInputs == {-2, 0, 2}

\* the steps new_from_states is given
StateDtInputs == {2}

\* new_custom: a light agent that keeps no trajectory next to a heavy recorded agent with drag
ConfigInputs ==
    { << BodyConfig(1, <<2, 1, 0, -2, 0, 0>>, 0, FALSE, 1),
         BodyConfig(2, <<0, 0, 1, 0, 2, -2>>, 1, TRUE, 0) >> }

\* new_from_states: no agent, a ragged array, two agents
StateInputs ==
    { <<>>,
      <<1, 0, 2, 2, 0, 1, 5>>,
      <<0, 0, 1, 0, 2, -2, 2, 1, 0, -2, 0, 0>> }

PositionInputs == { <<3, -1, 4>> }

VelocityInputs == { <<-2, 0, 3>> }

ForceInputs == { <<0, 0, 4>>, <<2, -4, 0>> }

\* the agent the host addresses: the last one
IndexInputs(n) == {n} \ {0}

\* the agent reset_agent is given: the last one, and one past the last
ResetIndexInputs(n) == {n, n + 1} \ {0}

\* a leader that moves along a line, followed by an observer with its consensus
\* gains switched off: once paused, once running
PolyLeader == [kind |-> "Poly", a2 |-> Zero3, a1 |-> <<1, 0, 1>>, a0 |-> <<2, 2, 0>>]

LineFollow ==
    [FormationEcbfParamsDefault EXCEPT !.leader = PolyLeader, !.obstacles = <<>>,
                                       !.obs_k1 = 0, !.obs_k2 = 0, !.obs_k3 = 0]

\* a leader that moves, with the default gain obs_k2 of the distributed observer
\* and without automatic offsets
LineObserved == [LineFollow EXCEPT !.obs_k2 = 1, !.auto_offsets = FALSE]

EcbfParamInputs == { [LineFollow EXCEPT !.leader_paused = TRUE], LineFollow, LineObserved }

FlockParamInputs == { [FlockParamsDefault EXCEPT !.max_force = 4] }

FlockAlphaParamInputs == { [FlockAlphaParamsDefault EXCEPT !.desired_distance = 2] }

SafeParamInputs == { [SafeFlockAlphaParamsDefault EXCEPT !.two_pass = TRUE] }

---------------------------------------------------------------------------
(* The engine as a state machine                                           *)

\* the engine's fields before the call in progress
Snapshot == [sim |-> sim, algorithm |-> algorithm, algorithm_id |-> algorithm_id, plane_2d |-> plane_2d]

\* what the last tick or step did
NoProbe == [stages |-> <<>>, fx |-> <<>>, ran |-> FALSE, first |-> FALSE,
            u_nom |-> <<>>, u_pred |-> <<>>, leader |-> <<>>, model |-> <<>>, calls |-> <<>>]

Call(op, ok, arg) == [op |-> op, ok |-> ok, arg |-> arg]

\* no call of the projector has been made
QpIdle ==
    [x_nom |-> <<>>, box_min |-> <<>>, box_max |-> <<>>, constraints |-> <<>>, inside |-> <<>>,
     called |-> FALSE, iters |-> 0, out |-> <<>>]

\* no parallel step is in flight
ParIdle == [stage |-> 0, field |-> "", pc |-> <<>>, k |-> <<>>, tmp_x |-> <<>>, tmp_v |-> <<>>, calls |-> <<>>]

Init ==
    /\ built = FALSE
    /\ model_id = ""
    /\ algorithm_id = ""
    /\ algorithm = AlgorithmNone
    /\ plane_2d = FALSE
    /\ sim = ParticleModelNew(<<>>, 0)
    /\ last = Call("none", TRUE, <<>>)
    /\ probe = NoProbe
    /\ hist = [prev |-> Call("none", TRUE, <<>>), pre |-> Snapshot, applied |-> FALSE, latched |-> NoHold]
    /\ budget = [ticks |-> 0, writes |-> 0]
    /\ qp = QpIdle
    /\ par = ParIdle

\* a constructor returned r
Construct(op, arg, r) ==
    /\ ~built
    /\ built' = r.ok
    /\ model_id' = r.model_id
    /\ algorithm_id' = r.algorithm_id
    /\ algorithm' = r.algorithm
    /\ plane_2d' = r.plane_2d
    /\ sim' = r.model
    /\ last' = Call(op, r.ok, arg)
    /\ probe' = NoProbe
    /\ hist' = [prev |-> Call("none", TRUE, <<>>), pre |-> Snapshot, applied |-> FALSE,
                latched |-> NoHold]
    /\ UNCHANGED <<budget, qp, par>>

NewBuiltin ==
    \E mid \in ModelIdInputs, aid \in OptionalAlgorithmId :
        Construct("new_builtin", <<mid, aid>>, new_builtin(mid, aid))

NewCustom ==
    \E configs \in ConfigInputs, dt \in DtInputs, aid \in OptionalAlgorithmId, plane \in BOOLEAN :
        Construct("new_custom", <<configs, dt, aid, plane>>, new_custom(configs, dt, aid, plane))

NewFromStates ==
    \E states \in StateInputs, dt \in StateDtInputs, aid \in OptionalAlgorithmId :
        Construct("new_from_states", <<states, dt, aid>>, new_from_states(states, dt, aid))

\* the first sample a paused leader returned, as the host saw it go by
LatchSeen(c) ==
    IF c.leader = <<>> THEN hist.latched
    ELSE IF ~c.algo.params.leader_paused THEN NoHold
    ELSE IF hist.latched.some THEN hist.latched
    ELSE SomeHold(c.leader[1])

\* a tick or a step ran to c
Advance(op, c) ==
    /\ built
    /\ budget.ticks < MaxTicks
    /\ budget' = [budget EXCEPT !.ticks = @ + 1]
    /\ algorithm' = c.algo
    /\ sim' = c.sim
    /\ last' = Call(op, TRUE, <<>>)
    /\ probe' = [stages |-> c.stages, fx |-> c.fx, ran |-> c.ran, first |-> c.ran /\ ~hist.applied,
                 u_nom |-> c.u_nom, u_pred |-> c.u_pred, leader |-> c.leader, model |-> c.model,
                 calls |-> <<>>]
    /\ hist' = [prev |-> last, pre |-> Snapshot, applied |-> hist.applied \/ c.ran,
                latched |-> LatchSeen(c)]
    /\ UNCHANGED <<built, model_id, algorithm_id, plane_2d, qp, par>>

Tick == Advance("tick", EngineTick(algorithm, sim, plane_2d))

Step == Advance("step", EngineStep(algorithm, sim, plane_2d))

\* a call between ticks
Write(op, ok, arg) ==
    /\ built
    /\ budget.writes < MaxWrites
    /\ budget' = [budget EXCEPT !.writes = @ + 1]
    /\ last' = Call(op, ok, arg)
    /\ probe' = NoProbe
    /\ UNCHANGED <<built, model_id, qp, par>>

Keep(applied, latched) == hist' = [prev |-> last, pre |-> Snapshot, applied |-> applied, latched |-> latched]

SetPlane2d ==
    \E enabled \in BOOLEAN :
        /\ Write("set_plane_2d", TRUE, <<enabled>>)
        /\ plane_2d' = enabled
        /\ Keep(hist.applied, hist.latched)
        /\ UNCHANGED <<algorithm_id, algorithm, sim>>

SetAlgorithm ==
    \E id \in AlgorithmIdInputs :
        LET r == set_algorithm(id, model_id, algorithm, algorithm_id)
        IN  /\ Write("set_algorithm", r.ok, <<id>>)
            /\ algorithm' = r.algorithm
            /\ algorithm_id' = r.algorithm_id
            /\ Keep(IF r.ok THEN FALSE ELSE hist.applied, IF r.ok THEN NoHold ELSE hist.latched)
            /\ UNCHANGED <<plane_2d, sim>>

SetPosition ==
    \E i \in IndexInputs(SimLen(sim)), pos \in PositionInputs :
        /\ Write("set_position", TRUE, <<i, pos>>)
        /\ sim' = SimSetPosition(sim, i, pos)
        /\ Keep(hist.applied, hist.latched)
        /\ UNCHANGED <<algorithm_id, algorithm, plane_2d>>

SetVelocity ==
    \E i \in IndexInputs(SimLen(sim)), vel \in VelocityInputs :
        /\ Write("set_velocity", TRUE, <<i, vel>>)
        /\ sim' = SimSetVelocity(sim, i, vel)
        /\ Keep(hist.applied, hist.latched)
        /\ UNCHANGED <<algorithm_id, algorithm, plane_2d>>

SetForce ==
    \E i \in IndexInputs(SimLen(sim)), f \in ForceInputs :
        /\ Write("set_force", TRUE, <<i, f>>)
        /\ sim' = SimSetForce(sim, i, f)
        /\ Keep(hist.applied, hist.latched)
        /\ UNCHANGED <<algorithm_id, algorithm, plane_2d>>

SetUniformForce ==
    \E f \in ForceInputs :
        /\ Write("set_uniform_force", TRUE, <<f>>)
        /\ sim' = set_uniform_force(sim, f)
        /\ Keep(hist.applied, hist.latched)
        /\ UNCHANGED <<algorithm_id, algorithm, plane_2d>>

\* a parameter setter returned r
SetParams(op, params, r) ==
    /\ Write(op, r.ok, <<params>>)
    /\ algorithm' = r.algorithm
    /\ Keep(hist.applied,
            IF r.ok /\ op = "set_formation_ecbf_params"
                    /\ ~(params.leader_paused /\ algorithm.params.leader_paused)
            THEN NoHold ELSE hist.latched)
    /\ UNCHANGED <<algorithm_id, plane_2d, sim>>

SetFlockParams ==
    \E params \in FlockParamInputs :
        SetParams("set_flock_params", params, set_params("Flocking", algorithm, params))

SetFlockAlphaParams ==
    \E params \in FlockAlphaParamInputs :
        SetParams("set_flock_alpha_params", params, set_params("FlockingAlpha", algorithm, params))

SetFormationEcbfParams ==
    \E params \in EcbfParamInputs :
        SetParams("set_formation_ecbf_params", params, set_params("FormationEcbf", algorithm, params))

SetSafeFlockingAlphaParams ==
    \E params \in SafeParamInputs :
        SetParams("set_safe_flocking_alpha_params", params,
                  set_params("SafeFlockingAlpha", algorithm, params))

ResetAgent ==
    \E i \in ResetIndexInputs(SimLen(sim)), pos \in PositionInputs, vel \in VelocityInputs :
        /\ Write("reset_agent", TRUE, <<i, pos, vel>>)
        /\ algorithm' = reset_agent(algorithm, i, pos, vel)
        /\ Keep(hist.applied, hist.latched)
        /\ UNCHANGED <<algorithm_id, plane_2d, sim>>

Next ==
    \/ NewBuiltin
    \/ NewCustom
    \/ NewFromStates
    \/ Tick
    \/ Step
    \/ SetPlane2d
    \/ SetAlgorithm
    \/ SetPosition
    \/ SetVelocity
    \/ SetForce
    \/ SetUniformForce
    \/ SetFlockParams
    \/ SetFlockAlphaParams
    \/ SetFormationEcbfParams
    \/ SetSafeFlockingAlphaParams
    \/ ResetAgent

Spec == Init /\ [][Next]_vars

---------------------------------------------------------------------------
(* The Simulator driven on its own, through its public methods            *)

\* Simulator::new: no body, and the two bodies of ConfigInputs with a third in
\* the group of the first
SimConfigInputs ==
    { <<>> } \cup ConfigInputs
    \cup { Append(configs, BodyConfig(1, <<-1, 3, 2, 1, 1, 0>>, 0, TRUE, 1)) : configs \in ConfigInputs }

GroupInputs == {0, 1, 2}

FieldInputs == {"spring", "ramp", "push"}

SimInit ==
    /\ built = FALSE
    /\ model_id = ""
    /\ algorithm_id = ""
    /\ algorithm = AlgorithmNone
    /\ plane_2d = FALSE
    /\ \E configs \in SimConfigInputs, dt \in DtInputs : sim = SimNew(configs, dt)
    /\ last = Call("new", TRUE, <<>>)
    /\ probe = NoProbe
    /\ hist = [prev |-> Call("none", TRUE, <<>>), pre |-> Snapshot, applied |-> FALSE, latched |-> NoHold]
    /\ budget = [ticks |-> 0, writes |-> 0]
    /\ qp = QpIdle
    /\ par = ParIdle

\* a method of the Simulator returned and left the simulator s; fx are the forces
\* its stages read, calls the calls of a force field it made
SimCall(op, arg, s, fx, calls) ==
    /\ sim' = s
    /\ last' = Call(op, TRUE, arg)
    /\ probe' = [NoProbe EXCEPT !.fx = fx, !.calls = calls]
    /\ hist' = [hist EXCEPT !.prev = last, !.pre = Snapshot]
    /\ UNCHANGED <<built, model_id, algorithm_id, algorithm, plane_2d, qp, par>>

SimStepCall ==
    /\ budget.ticks < MaxTicks
    /\ budget' = [budget EXCEPT !.ticks = @ + 1]
    /\ SimCall("step", <<>>, SimStep(sim), StepForces(sim), <<>>)

SimStepWithFieldCall ==
    \E field \in FieldInputs :
        /\ budget.ticks < MaxTicks
        /\ budget' = [budget EXCEPT !.ticks = @ + 1]
        /\ SimCall("step_with_field", <<field>>, SimStepWithField(sim, field), <<>>,
                   FieldCalls(sim, field))

SimSetForceCall ==
    \E i \in IndexInputs(SimLen(sim)), f \in ForceInputs :
        /\ budget.writes < MaxWrites
        /\ budget' = [budget EXCEPT !.writes = @ + 1]
        /\ SimCall("set_force", <<i, f>>, SimSetForce(sim, i, f), <<>>, <<>>)

SimSetGroupForceCall ==
    \E g \in GroupInputs, f \in ForceInputs :
        /\ budget.writes < MaxWrites
        /\ budget' = [budget EXCEPT !.writes = @ + 1]
        /\ SimCall("set_group_force", <<g, f>>, SimSetGroupForce(sim, g, f), <<>>, <<>>)

SimSetDtCall ==
    \E dt \in DtInputs :
        /\ budget.writes < MaxWrites
        /\ budget' = [budget EXCEPT !.writes = @ + 1]
        /\ SimCall("set_dt", <<dt>>, SimSetDt(sim, dt), <<>>, <<>>)

SimNext ==
    \/ SimStepCall
    \/ SimStepWithFieldCall
    \/ SimSetForceCall
    \/ SimSetGroupForceCall
    \/ SimSetDtCall

SimSpec == SimInit /\ [][SimNext]_vars

---------------------------------------------------------------------------
(* The projector called on its own: project_qp3 and project_qp4            *)

\* the iteration caps a caller passes
MaxIters == 3

\* a length of the program in grid units, fine enough for the quotients of the
\* projections of the inputs below to be exact up to MaxIters + 1 iterations
QpScaled(v) == SVScale(256, v)

\* the box [-r, r]^3, and with a slack in [0, 2 r] as fourth entry
QpBox3(r) == [lo |-> QpScaled(<<-r, -r, -r>>), hi |-> QpScaled(<<r, r, r>>)]

QpBox4(r) == [lo |-> QpScaled(<<-r, -r, -r, 0>>), hi |-> QpScaled(<<r, r, r, 2 * r>>)]

\* constraint lists in 3D, each with a point of the box that satisfies the list:
\* none; single half-spaces along an axis (x >= 1/2, y <= 1/2, z >= 1: a face of
\* the unit box); an oblique one; an oblique pair
QpConstraints3 ==
    { [c |-> <<>>, inside |-> <<0, 0, 0>>],
      [c |-> << Halfspace(<<1, 0, 0>>, 128) >>, inside |-> <<128, 0, 0>>],
      [c |-> << Halfspace(<<0, -1, 0>>, -128) >>, inside |-> <<0, 0, 0>>],
      [c |-> << Halfspace(<<0, 0, 1>>, 256) >>, inside |-> <<0, 0, 256>>],
      [c |-> << Halfspace(<<1, 1, 0>>, 256) >>, inside |-> <<256, 0, 0>>],
      [c |-> << Halfspace(<<0, -1, 1>>, -256), Halfspace(<<-1, 0, -1>>, 256) >>,
       inside |-> <<-256, 0, 0>>] }

\* constraint lists in 4D with the slack coefficient 1 as fourth column
QpConstraints4 ==
    { [c |-> <<>>, inside |-> <<0, 0, 0, 0>>],
      [c |-> << Halfspace(<<1, 0, 0, 1>>, 128) >>, inside |-> <<0, 0, 0, 256>>],
      [c |-> << Halfspace(<<0, 1, 0, 1>>, -256), Halfspace(<<1, 0, 0, 1>>, 512) >>,
       inside |-> <<256, 0, 0, 256>>],
      [c |-> << Halfspace(<<-1, 1, -1, 1>>, 512), Halfspace(<<0, 0, 0, 1>>, 512) >>,
       inside |-> <<0, 0, 0, 512>>] }

QpNominals3 == { QpScaled(x) : x \in { <<0, 0, 0>>, <<3, -1, -1>>, <<-3, 1, 0>>, <<1, 3, 0>>, <<0, -2, 2>> } }

QpNominals4 ==
    { QpScaled(x) : x \in { <<0, 0, 0, 0>>, <<1, -3, 0, 0>>, <<-1, -3, 3, 0>>, <<2, 1, 0, 0>>,
                            <<3, -1, -1, 0>> } }

\* the arguments of a call that has not been made yet
QpArguments(x_nom, box, cons) ==
    [QpIdle EXCEPT !.x_nom = x_nom, !.box_min = box.lo, !.box_max = box.hi,
                   !.constraints = cons.c, !.inside = cons.inside]

QpInputs ==
    { QpArguments(x, QpBox3(r), cons) : x \in QpNominals3, r \in {1, 2}, cons \in QpConstraints3 }
    \cup { QpArguments(x, QpBox4(r), cons) : x \in QpNominals4, r \in {1, 2}, cons \in QpConstraints4 }

QpInit ==
    /\ built = FALSE
    /\ model_id = ""
    /\ algorithm_id = ""
    /\ algorithm = AlgorithmNone
    /\ plane_2d = FALSE
    /\ sim = ParticleModelNew(<<>>, 0)
    /\ last = Call("none", TRUE, <<>>)
    /\ probe = NoProbe
    /\ hist = [prev |-> Call("none", TRUE, <<>>), pre |-> Snapshot, applied |-> FALSE, latched |-> NoHold]
    /\ budget = [ticks |-> 0, writes |-> 0]
    /\ qp \in QpInputs
    /\ par = ParIdle

\* a call of the projector with cap iters returned out
QpCall(op, iters, out) ==
    /\ qp' = [qp EXCEPT !.called = TRUE, !.iters = iters, !.out = out]
    /\ last' = Call(op, TRUE, <<iters>>)
    /\ UNCHANGED <<built, model_id, algorithm_id, algorithm, plane_2d, sim, probe, hist, budget, par>>

ProjectQp3 ==
    \E iters \in 0..MaxIters :
        /\ Len(qp.x_nom) = 3
        /\ QpCall("project_qp3", iters,
                  project_qp3(qp.x_nom, qp.box_min, qp.box_max, qp.constraints, iters))

ProjectQp4 ==
    \E iters \in 0..MaxIters :
        /\ Len(qp.x_nom) = 4
        /\ QpCall("project_qp4", iters,
                  project_qp4(qp.x_nom, qp.box_min, qp.box_max, qp.constraints, iters))

QpNext ==
    \/ ProjectQp3
    \/ ProjectQp4

QpSpec == QpInit /\ [][QpNext]_vars

---------------------------------------------------------------------------
(* Simulator::step_par_with_field: the stages of the step run one after the *)
(* other, each a parallel loop (0..n).into_par_iter().for_each with one     *)
(* worker per index; the worker of index i runs the statements of the       *)
(* closure in program order, interleaved with the other workers             *)

\* the statements of the closure of a stage: stages 1..4 are k1..k4, stage 5 is
\* the state update, stage 6 the trajectory push
ParBody(stage) ==
    CASE stage \in 1..3 -> <<"kx", "kv", "tmp_x", "tmp_v">>
      [] stage = 4 -> <<"kx", "kv">>
      [] stage = 5 -> <<"x", "v">>
      [] OTHER -> <<"push">>

\* the work buffers of Simulator::new, all zero, and no step in flight
ParRest(n) ==
    [ParIdle EXCEPT !.k = [kx |-> Fill(4, Fill(n, Zero3)), kv |-> Fill(4, Fill(n, Zero3))],
                    !.tmp_x = Fill(n, Zero3), !.tmp_v = Fill(n, Zero3)]

\* self.x[i] + 0.5 * dt * k in k1 and k2, self.x[i] + dt * k in k3
ParAdvance(base, dt, k, stage) ==
    IF stage = 3 THEN FullAdvance(base, dt, k) ELSE HalfAdvance(base, dt, k)

\* the worker of index i runs its next statement on the simulator s and the
\* buffers p as they are at that moment
ParExec(s, p, i) ==
    LET stmt == ParBody(p.stage)[p.pc[i]]
        vel  == IF p.stage = 1 THEN s.v[i] ELSE p.tmp_v[i]
        q    == [p EXCEPT !.pc[i] = @ + 1]
    IN  CASE stmt = "kx" -> [sim |-> s, par |-> [q EXCEPT !.k.kx[p.stage][i] = vel]]
          [] stmt = "kv" ->
                [sim |-> s,
                 par |-> [q EXCEPT !.k.kv[p.stage][i] = Acc(s.fx[i], s.drag[i], vel, s.mass[i])]]
          [] stmt = "tmp_x" ->
                [sim |-> s,
                 par |-> [q EXCEPT !.tmp_x[i] = ParAdvance(s.x[i], s.dt, p.k.kx[p.stage][i], p.stage)]]
          [] stmt = "tmp_v" ->
                [sim |-> s,
                 par |-> [q EXCEPT !.tmp_v[i] = ParAdvance(s.v[i], s.dt, p.k.kv[p.stage][i], p.stage)]]
          [] stmt = "x" -> [sim |-> [s EXCEPT !.x[i] = VAdd(@, Simpson(s.dt, p.k.kx, i))], par |-> q]
          [] stmt = "v" -> [sim |-> [s EXCEPT !.v[i] = VAdd(@, Simpson(s.dt, p.k.kv, i))], par |-> q]
          [] OTHER ->
                [sim |-> [s EXCEPT !.traj[i] = PushTraj(@, s.x[i], s.v[i], s.time)], par |-> q]

\* a parallel loop that returns as soon as one of its workers is through
ParSomeDone(p) == \E i \in 1..Len(p.pc) : p.pc[i] > Len(ParBody(p.stage))

\* for_each returns: every worker has run the whole closure
ParAllDone(p) == \A i \in 1..Len(p.pc) : p.pc[i] > Len(ParBody(p.stage))

\* field.force_all(t, x, v, &mut self.fx) opens the stage that follows
ParOpen(s, p, t, x, v) ==
    [sim |-> [s EXCEPT !.fx = force_all(p.field, t, x, v)],
     par |-> [p EXCEPT !.stage = @ + 1, !.pc = Fill(SimLen(s), 1),
                       !.calls = Append(@, [t |-> t, x |-> x, v |-> v])]]

\* the statements between the parallel loop of a stage and the next one
ParJoined(s, p) ==
    CASE p.stage \in {1, 2} -> ParOpen(s, p, s.time + Quot(s.dt, 2), p.tmp_x, p.tmp_v)
      [] p.stage = 3 -> ParOpen(s, p, s.time + s.dt, p.tmp_x, p.tmp_v)
      [] p.stage = 4 -> [sim |-> s, par |-> [p EXCEPT !.stage = 5, !.pc = Fill(SimLen(s), 1)]]
      [] p.stage = 5 ->
            [sim |-> [s EXCEPT !.time = s.time + s.dt],
             par |-> [p EXCEPT !.stage = 6, !.pc = Fill(SimLen(s), 1)]]
      [] OTHER -> [sim |-> s, par |-> [p EXCEPT !.stage = 0, !.pc = <<>>]]

ParInit ==
    /\ built = FALSE
    /\ model_id = ""
    /\ algorithm_id = ""
    /\ algorithm = AlgorithmNone
    /\ plane_2d = FALSE
    /\ \E configs \in SimConfigInputs, dt \in DtInputs :
          /\ sim = SimNew(configs, dt)
          /\ par = ParRest(Len(configs))
    /\ last = Call("new", TRUE, <<>>)
    /\ probe = NoProbe
    /\ hist = [prev |-> Call("none", TRUE, <<>>), pre |-> Snapshot, applied |-> FALSE, latched |-> NoHold]
    /\ budget = [ticks |-> 0, writes |-> 0]
    /\ qp = QpIdle

\* step_par_with_field is called: it returns at once on the empty simulator, and
\* evaluates the field and starts the workers of k1 otherwise
ParBegin ==
    \E field \in FieldInputs :
        /\ par.stage = 0
        /\ budget.ticks < MaxTicks
        /\ budget' = [budget EXCEPT !.ticks = @ + 1]
        /\ last' = Call("step_par_with_field", TRUE, <<field>>)
        /\ hist' = [hist EXCEPT !.prev = last, !.pre = Snapshot]
        /\ IF SimLen(sim) = 0
           THEN /\ sim' = sim
                /\ par' = [par EXCEPT !.field = field, !.calls = <<>>]
           ELSE /\ sim' = ParOpen(sim, [par EXCEPT !.stage = 0, !.field = field, !.calls = <<>>],
                                  sim.time, sim.x, sim.v).sim
                /\ par' = ParOpen(sim, [par EXCEPT !.stage = 0, !.field = field, !.calls = <<>>],
                                  sim.time, sim.x, sim.v).par
        /\ UNCHANGED <<built, model_id, algorithm_id, algorithm, plane_2d, probe, qp>>

\* one worker runs one statement
ParStatement ==
    \E i \in 1..Len(par.pc) :
        /\ par.stage > 0
        /\ par.pc[i] <= Len(ParBody(par.stage))
        /\ sim' = ParExec(sim, par, i).sim
        /\ par' = ParExec(sim, par, i).par
        /\ UNCHANGED <<built, model_id, algorithm_id, algorithm, plane_2d, last, probe, hist, budget, qp>>

\* the parallel loop of a stage returns and the step goes on to the next stage, or
\* returns after the last
ParJoin ==
    /\ par.stage > 0
    /\ ParAllDone(par)
    /\ sim' = ParJoined(sim, par).sim
    /\ par' = ParJoined(sim, par).par
    /\ UNCHANGED <<built, model_id, algorithm_id, algorithm, plane_2d, last, probe, hist, budget, qp>>

ParNext ==
    \/ ParBegin
    \/ ParStatement
    \/ ParJoin

ParSpec == ParInit /\ [][ParNext]_vars

---------------------------------------------------------------------------
(* Properties of the engine                                                *)

\* the state a tick of the engine has just left
AfterTick == last.op = "tick"

\* the ids of the controllers that run an apply stage
Controllers == {"flocking", "flocking-alpha", "formation-ecbf", "safe-flocking-alpha"}

\* the stage order of one tick for an algorithm id and a plane flag
StageOrder(aid, plane) ==
    (IF plane THEN <<"flatten">> ELSE <<>>)
    \o (IF aid \in Controllers THEN <<"apply">> ELSE <<>>)
    \o <<"step">>
    \o (IF plane THEN <<"flatten">> ELSE <<>>)

\* C1: every tick runs flatten (only if plane_2d), then the controller's apply
\* (skipped for "none"), then one integrator step, then flatten (only if plane_2d),
\* each once and in this order, for each of the five algorithms.
C1_TickStageOrder == AfterTick => probe.stages = StageOrder(hist.pre.algorithm_id, hist.pre.plane_2d)

\* a tick in 2D mode under each of the five algorithms
C1_Witness ==
    /\ AfterTick
    /\ plane_2d
    /\ algorithm_id = "safe-flocking-alpha"
    /\ probe.stages = <<"flatten", "apply", "step", "flatten">>
    /\ probe.ran

\* C2: with plane_2d set, right after every tick every agent has position z = 0
\* and velocity z = 0, whatever the algorithm, the z and vz before the tick and the
\* forces and states the host wrote between ticks.
C2_PlaneAfterTick ==
    AfterTick /\ plane_2d => \A i \in 1..SimLen(sim) : sim.x[i][3] = 0 /\ sim.v[i][3] = 0

\* a tick in 2D mode of an agent that was off the plane and pushed along z
C2_Witness ==
    /\ AfterTick
    /\ plane_2d
    /\ \E i \in 1..SimLen(sim) :
          /\ hist.pre.sim.x[i][3] # 0
          /\ hist.pre.sim.v[i][3] # 0
          /\ hist.pre.sim.forces[i][3] # 0

\* C3: with plane_2d set, after every tick the stored force of every agent has
\* z = 0, for every algorithm id ("none" included) and every force the host wrote.
C3_PlaneForceAfterTick ==
    AfterTick /\ plane_2d /\ sim.dt > 0 => \A i \in 1..SimLen(sim) : sim.forces[i][3] = 0

\* the ticks of C3 in which a controller wrote the forces: there the stored z is 0
C3_ControllerForceWitness ==
    /\ AfterTick
    /\ plane_2d
    /\ probe.ran
    /\ \E i \in 1..SimLen(sim) : hist.pre.sim.forces[i][3] # 0 /\ sim.forces[i][3] = 0

\* the agent and the force of the set_force call that came right before the tick
ForceWritten == [i |-> hist.prev.arg[1], f |-> hist.prev.arg[2]]

\* a tick that follows a set_force call directly
TickAfterSetForce == AfterTick /\ hist.prev.op = "set_force" /\ SimLen(sim) > 0

\* C4 as stated: after set_force(i, F) and a tick, each of the four RK4 stages of
\* that tick read F for agent i, whatever the algorithm.
C4_ForceLatchedAnyAlgorithm ==
    TickAfterSetForce /\ sim.dt > 0 => \A k \in 1..4 : probe.fx[k][ForceWritten.i] = ForceWritten.f

\* C4: after set_force(i, F) and a tick, the four RK4 stages of that tick read one
\* and the same force for agent i, the one stored when the step starts; it is F when
\* no controller's apply ran in the tick ("none", or an apply that returned early).
C4_ForceLatched ==
    TickAfterSetForce =>
        /\ \A k \in 1..4 : probe.fx[k][ForceWritten.i] = sim.forces[ForceWritten.i]
        /\ ~probe.ran => sim.forces[ForceWritten.i] = ForceWritten.f

\* a tick without a controller right after a non-zero force was written
C4_Witness ==
    /\ TickAfterSetForce
    /\ ~probe.ran
    /\ ForceWritten.f # Zero3
    /\ probe.fx[4][ForceWritten.i] = ForceWritten.f
    /\ sim.time > 0

\* the compatibility matrix: "formation-ecbf" goes with each of the four models,
\* every other algorithm with ring-swarm, lattice-swarm and from-states only
InMatrix(mid, aid) ==
    \/ aid = "formation-ecbf"
          /\ mid \in {"ring-swarm", "lattice-swarm", "quadrotor-swarm", "from-states"}
    \/ aid \in {"none", "flocking", "flocking-alpha", "safe-flocking-alpha"}
          /\ mid \in {"ring-swarm", "lattice-swarm", "from-states"}

\* C5: set_algorithm(id) with an id that is not compatible with the engine's model
\* returns an error and leaves the controller, its parameters, its internal state
\* and algorithm_id as they were.
C5_RejectedSwitch ==
    last.op = "set_algorithm" /\ ~InMatrix(model_id, last.arg[1]) =>
        /\ ~last.ok
        /\ algorithm = hist.pre.algorithm
        /\ algorithm_id = hist.pre.algorithm_id

\* a switch the quadrotor model rejects, on a controller that holds state
C5_Witness ==
    /\ last.op = "set_algorithm"
    /\ model_id = "quadrotor-swarm"
    /\ last.arg[1] = "safe-flocking-alpha"
    /\ ~last.ok
    /\ algorithm.kind = "FormationEcbf"
    /\ Len(algorithm.state.chi) > 0

\* the controller variant an algorithm id names
VariantOf(aid) ==
    CASE aid = "none" -> "None"
      [] aid = "flocking" -> "Flocking"
      [] aid = "flocking-alpha" -> "FlockingAlpha"
      [] aid = "formation-ecbf" -> "FormationEcbf"
      [] aid = "safe-flocking-alpha" -> "SafeFlockingAlpha"
      [] OTHER -> ""

\* C6: in every state of a constructed engine, whatever the constructor and the
\* set_algorithm calls that succeeded or failed since, (model_id, algorithm_id) is
\* in the compatibility matrix and algorithm_id names the variant installed.
C6_CompatiblePair ==
    built => InMatrix(model_id, algorithm_id) /\ algorithm.kind = VariantOf(algorithm_id)

\* a switch that succeeded and changed the controller
C6_Witness ==
    /\ built
    /\ last.op = "set_algorithm"
    /\ last.ok
    /\ algorithm_id # hist.pre.algorithm_id
    /\ algorithm_id = "formation-ecbf"

\* C7: with leader_paused set, the leader state (p0, v0, a0) every leader query of
\* the formation controller returns is the sample latched at the first query, at
\* every later tick and for every later value of time.
C7_LeaderLatched ==
    AfterTick /\ probe.leader # <<>> /\ hist.latched.some => probe.leader[1] = hist.latched.val

\* C8: when dt is not positive, a tick is a no-op: positions, velocities, time,
\* forces and the controller's state are as they were before it, for every algorithm.
C8_NoOpTick ==
    AfterTick /\ sim.dt <= 0 =>
        /\ sim.x = hist.pre.sim.x
        /\ sim.v = hist.pre.sim.v
        /\ sim.time = hist.pre.sim.time
        /\ sim.forces = hist.pre.sim.forces
        /\ algorithm = hist.pre.algorithm

\* the record a tick appended to the trajectory of agent i, if it appended one
Appended(i) ==
    IF sim.traj[i].some /\ Len(sim.traj[i].rec) > Len(hist.pre.sim.traj[i].rec)
    THEN <<sim.traj[i].rec[Len(sim.traj[i].rec)]>>
    ELSE <<>>

\* C9: with plane_2d set, every tuple a tick appends to a recorded trajectory has
\* z = 0 and vz = 0: it is a snapshot of the flattened state the tick leaves.
C9_RecordOnPlane ==
    AfterTick /\ plane_2d /\ sim.dt > 0 =>
        \A i \in 1..SimLen(sim) :
            Appended(i) # <<>> => Appended(i)[1][3] = 0 /\ Appended(i)[1][6] = 0

\* C10: the neighbour prediction of the safe flocking controller is the nominal
\* command of this tick on the controller's first tick, and the safe command the
\* previous tick produced on every later tick, also when the controller was
\* installed by set_algorithm after time had advanced.
C10_Prediction ==
    AfterTick /\ probe.u_pred # <<>> =>
        IF probe.first
        THEN probe.u_pred = probe.u_nom
        ELSE probe.u_pred = hist.pre.algorithm.state.u_safe

\* the algorithm id whose parameter block a setter writes
SetterAlgorithm(op) ==
    CASE op = "set_flock_params" -> "flocking"
      [] op = "set_flock_alpha_params" -> "flocking-alpha"
      [] op = "set_formation_ecbf_params" -> "formation-ecbf"
      [] op = "set_safe_flocking_alpha_params" -> "safe-flocking-alpha"
      [] OTHER -> ""

\* C11: a parameter setter called while another algorithm is active returns an
\* error and changes nothing; called for the active algorithm it replaces the whole
\* parameter block and keeps the controller's internal state.
C11_ParamSetter ==
    SetterAlgorithm(last.op) # "" =>
        IF hist.pre.algorithm_id = SetterAlgorithm(last.op)
        THEN /\ last.ok
             /\ algorithm.params = last.arg[1]
             /\ algorithm.state = hist.pre.algorithm.state
             /\ algorithm.kind = hist.pre.algorithm.kind
             /\ <<sim, algorithm_id, plane_2d>>
                    = <<hist.pre.sim, hist.pre.algorithm_id, hist.pre.plane_2d>>
        ELSE /\ ~last.ok
             /\ Snapshot = hist.pre

\* new parameters written to a formation controller that has ticked and holds state
C11_Witness ==
    /\ last.op = "set_formation_ecbf_params"
    /\ last.ok
    /\ algorithm.params # hist.pre.algorithm.params
    /\ Len(algorithm.state.chi) > 0


\* apply left the simulator as it was given it, the force array apart
OnlyForces(given, left) == [left EXCEPT !.forces = given.forces] = given

\* C12: the apply of each of the four controllers changes only the force array of
\* the integrator and the controller's own state: positions, velocities, masses,
\* drags, groups, time and dt are the same before and after, also with plane_2d set
\* (z is zeroed on the controller's copies only).
C12_ApplyFrame ==
    /\ AfterTick /\ probe.model # <<>> => OnlyForces(probe.model[1], probe.model[2])
    /\ built /\ budget.ticks < MaxTicks =>
          \A plane \in BOOLEAN : OnlyForces(sim, Apply(algorithm, sim, plane).sim)

\* a tick whose apply wrote new forces for agents that are off the plane, and an
\* apply in 2D mode on those agents
C12_Witness ==
    /\ AfterTick
    /\ probe.ran
    /\ probe.model[2].forces # probe.model[1].forces
    /\ \E i \in 1..SimLen(sim) : probe.model[1].x[i][3] # 0 /\ probe.model[1].v[i][3] # 0
    /\ budget.ticks < MaxTicks
    /\ \E i \in 1..SimLen(sim) : sim.x[i][3] # 0 /\ sim.v[i][3] # 0
    /\ Apply(algorithm, sim, TRUE).ran


\* the per-agent buffers of the formation controller that reset_agent may write
PerAgentBuffers ==
    {"v_hat", "theta_hat", "p_state", "mu_prev", "mu_dot_prev", "alpha_prev", "alpha_dot_prev",
     "mu_ready", "alpha_ready"}

\* buffer b of the controller state differs from what it was at agent i at most
SameButAgent(b, i) ==
    /\ Len(algorithm.state[b]) = Len(hist.pre.algorithm.state[b])
    /\ \A j \in 1..Len(algorithm.state[b]) :
          j # i => algorithm.state[b][j] = hist.pre.algorithm.state[b][j]

\* the cases in which reset_agent(i, p, v) has nothing to reset
NothingToReset(i) ==
    \/ hist.pre.algorithm_id # "formation-ecbf"
    \/ i > SimLen(sim)
    \/ Len(hist.pre.algorithm.state.chi) = 0

\* C13: reset_agent(i, p, v) never changes a position, a velocity or a force; it
\* changes the controller state of agent i only, no observer state of another agent;
\* it changes nothing at all when the algorithm is not formation-ecbf, when i >= N,
\* or before the controller state has been initialised.
C13_ResetAgentFrame ==
    last.op = "reset_agent" =>
        /\ <<sim, algorithm_id, plane_2d>> = <<hist.pre.sim, hist.pre.algorithm_id, hist.pre.plane_2d>>
        /\ IF NothingToReset(last.arg[1])
           THEN algorithm = hist.pre.algorithm
           ELSE /\ algorithm.kind = hist.pre.algorithm.kind
                /\ algorithm.params = hist.pre.algorithm.params
                /\ \A b \in DOMAIN algorithm.state :
                      IF b \in PerAgentBuffers
                      THEN SameButAgent(b, last.arg[1])
                      ELSE algorithm.state[b] = hist.pre.algorithm.state[b]

\* a reset of the last of several agents of a formation controller that has ticked
C13_Witness ==
    /\ last.op = "reset_agent"
    /\ ~NothingToReset(last.arg[1])
    /\ SimLen(sim) >= 2
    /\ algorithm.state.v_hat[last.arg[1]] # hist.pre.algorithm.state.v_hat[last.arg[1]]
    /\ algorithm.state.v_hat[1] # last.arg[3]


\* a run of an engine without controller left the forces of s alone and read them
\* at each stage of its step
NoneRunKeepsForces(s, c) ==
    /\ c.sim.forces = s.forces
    /\ SimLen(s) > 0 => \A k \in 1..4 : c.fx[k] = s.forces

\* C14: Simulator.step, and Engine.tick and Engine.step with algorithm "none",
\* never modify the forces: a force written by set_force, set_uniform_force or
\* set_group_force is the force every later step reads until a caller overwrites
\* it; set_group_force(g, F) overwrites exactly the agents whose group is g.
C14_ForcesPersist ==
    /\ last.op \in {"step", "step_with_field"} => sim.forces = hist.pre.sim.forces
    /\ last.op = "step" /\ SimLen(sim) > 0 => \A k \in 1..4 : probe.fx[k] = hist.pre.sim.forces
    /\ last.op = "set_group_force" =>
          \A i \in 1..SimLen(sim) :
              sim.forces[i] = IF sim.groups[i] = last.arg[1] THEN last.arg[2]
                              ELSE hist.pre.sim.forces[i]
    /\ last.op = "set_force" =>
          \A i \in 1..SimLen(sim) :
              sim.forces[i] = IF i = last.arg[1] THEN last.arg[2] ELSE hist.pre.sim.forces[i]
    /\ \A plane \in BOOLEAN :
          /\ NoneRunKeepsForces(sim, EngineTick(AlgorithmNone, sim, plane))
          /\ NoneRunKeepsForces(sim, EngineStep(AlgorithmNone, sim, plane))
          /\ \A f \in ForceInputs :
                /\ set_uniform_force(sim, f).forces = Fill(SimLen(sim), f)
                /\ NoneRunKeepsForces(set_uniform_force(sim, f),
                                      EngineTick(AlgorithmNone, set_uniform_force(sim, f), plane))

\* the second step after a group write that reached some agents and not the others
C14_Witness ==
    /\ last.op = "step"
    /\ hist.prev.op = "step"
    /\ budget = [ticks |-> 2, writes |-> 1]
    /\ \E i, j \in 1..SimLen(sim) :
          /\ sim.groups[i] # sim.groups[j]
          /\ sim.forces[i] # Zero3
          /\ sim.forces[j] = Zero3
          /\ probe.fx[4][i] = sim.forces[i]
    /\ sim.dt > 0


\* the calls that build the engine
Constructors == {"new_builtin", "new_custom", "new_from_states"}

\* the calls that integrate
Integrates == last.op \in {"tick", "step"}

\* C15: for an engine with N >= 1 every integration step adds exactly dt to time,
\* so that after K steps time = K * dt and time never decreases; no other call
\* (setters, set_algorithm, parameter writes, reset_agent) changes time.
C15_TimeAdvances ==
    built =>
        /\ Integrates /\ SimLen(sim) >= 1 =>
              /\ sim.time = hist.pre.sim.time + sim.dt
              /\ sim.time >= hist.pre.sim.time
        /\ SimLen(sim) >= 1 => sim.time = budget.ticks * sim.dt
        /\ ~Integrates /\ last.op \notin Constructors => sim.time = hist.pre.sim.time


\* the record (x, y, z, vx, vy, vz, t) of the state agent i is in
RecordOf(i) ==
    <<sim.x[i][1], sim.x[i][2], sim.x[i][3], sim.v[i][1], sim.v[i][2], sim.v[i][3], sim.time>>

\* C16: for an agent created with trajectory_write set, each step appends exactly
\* one tuple (x, y, z, vx, vy, vz, t) that holds the state and the time the step
\* leaves, so that after K steps the trajectory has exactly K entries with strictly
\* increasing t; an agent created without it never has a trajectory.
C16_TrajectoryPerStep ==
    \A i \in 1..SimLen(sim) :
        IF sim.traj[i].some
        THEN /\ Len(sim.traj[i].rec) = budget.ticks
             /\ last.op \in {"step", "step_with_field"} =>
                   sim.traj[i].rec[Len(sim.traj[i].rec)] = RecordOf(i)
             /\ \A k \in 1..(Len(sim.traj[i].rec) - 1) :
                   sim.traj[i].rec[k][7] < sim.traj[i].rec[k + 1][7]
        ELSE sim.traj[i].rec = <<>>


\* the per-agent buffers of the formation controller and of the safe flocking controller
EcbfBuffers ==
    {"chi", "varsigma", "v_hat", "theta_hat", "p_state", "mu_prev", "mu_dot_prev", "alpha_prev",
     "alpha_dot_prev", "mu_ready", "alpha_ready", "attitudes", "thrusts"}

SafeBuffers == {"u_nom", "u_safe", "slack", "active", "total"}

\* the buffers of st are all absent or all of length n
AbsentOrSized(st, buffers, n) ==
    \/ \A b \in buffers : Len(st[b]) = 0
    \/ \A b \in buffers : Len(st[b]) = n

\* C17: the per-agent buffers of a controller are all absent (length 0) or all of
\* length N: chi, varsigma, v_hat, theta_hat, p_state, mu_prev, mu_dot_prev,
\* alpha_prev, alpha_dot_prev, mu_ready, alpha_ready, attitudes and thrusts of the
\* formation controller, u_nom, u_safe, slack, active and total of the safe flocking
\* controller, in every state of the engine, before and after any tick.
C17_BuffersSized ==
    built =>
        /\ algorithm.kind = "FormationEcbf" => AbsentOrSized(algorithm.state, EcbfBuffers, SimLen(sim))
        /\ algorithm.kind = "SafeFlockingAlpha" => AbsentOrSized(algorithm.state, SafeBuffers, SimLen(sim))

\* a formation controller of several agents that a tick has just sized
C17_Witness ==
    /\ AfterTick
    /\ algorithm.kind = "FormationEcbf"
    /\ SimLen(sim) >= 2
    /\ Len(hist.pre.algorithm.state.chi) = 0
    /\ \A b \in EcbfBuffers : Len(algorithm.state[b]) = SimLen(sim)


\* C18: attitudes() returns exactly 3N values whenever the active algorithm is
\* formation-ecbf, in every state of the engine, and an array of length zero for
\* every other algorithm.
C18_AttitudesLength ==
    built =>
        Len(attitudes_flat(algorithm)) =
            IF algorithm_id = "formation-ecbf" THEN 3 * SimLen(sim) ELSE 0

\* the states of C18 in which the formation controller has been applied: there
\* attitudes() has 3N values
C18_AppliedWitness ==
    /\ built
    /\ algorithm_id = "formation-ecbf"
    /\ SimLen(sim) >= 2
    /\ Len(attitudes_flat(algorithm)) = 3 * SimLen(sim)


\* the algorithm ids of the catalog
KnownAlgorithms == {"none", "flocking", "flocking-alpha", "formation-ecbf", "safe-flocking-alpha"}

\* the engine new_from_states(states, dt, alg) returns on success: N = len / 6 agents,
\* agent i at states[6i..6i+5] in that order, model id "from-states", plane_2d off
BuiltFromStates(states) ==
    /\ built
    /\ 6 * SimLen(sim) = Len(states)
    /\ \A i \in 1..SimLen(sim) :
          /\ sim.x[i] = <<states[6 * i - 5], states[6 * i - 4], states[6 * i - 3]>>
          /\ sim.v[i] = <<states[6 * i - 2], states[6 * i - 1], states[6 * i]>>
    /\ model_id = "from-states"
    /\ plane_2d = FALSE

\* C19 as stated: new_from_states(states, dt, alg) fails exactly when the length of
\* states is not a multiple of 6, and on success returns the engine of BuiltFromStates.
C19_FailsOnShapeOnly ==
    last.op = "new_from_states" =>
        /\ ~last.ok <=> Len(last.arg[1]) % 6 # 0
        /\ last.ok => BuiltFromStates(last.arg[1])

\* C19: new_from_states(states, dt, alg) fails exactly when the length of states is
\* not a multiple of 6 or alg is an id outside the algorithm catalog; on success the
\* engine has N = len / 6 agents, agent i starts at states[6i..6i+5] in the order
\* (x, y, z, vx, vy, vz), the model id is "from-states" and plane_2d is off.
C19_FromStates ==
    last.op = "new_from_states" =>
        /\ ~last.ok <=> \/ Len(last.arg[1]) % 6 # 0
                        \/ last.arg[3].some /\ last.arg[3].id \notin KnownAlgorithms
        /\ last.ok => BuiltFromStates(last.arg[1])

\* an engine of two agents built from twelve numbers
C19_Witness ==
    /\ last.op = "new_from_states"
    /\ last.ok
    /\ SimLen(sim) = 2
    /\ sim.x # sim.v
    /\ BuiltFromStates(last.arg[1])


\* the model ids of the catalog
KnownModels == {"ring-swarm", "lattice-swarm", "quadrotor-swarm", "from-states"}

\* the algorithm id the last call was given, if it was given one
AlgorithmGiven ==
    CASE last.op = "new_builtin" -> last.arg[2]
      [] last.op \in {"new_custom", "new_from_states"} -> last.arg[3]
      [] last.op = "set_algorithm" -> SomeId(last.arg[1])
      [] OTHER -> NoId

\* the last call was given an id that is not in its catalog
UnknownIdGiven ==
    \/ AlgorithmGiven.some /\ AlgorithmGiven.id \notin KnownAlgorithms
    \/ last.op = "new_builtin" /\ last.arg[1] \notin KnownModels

\* C20: a constructor or set_algorithm given an algorithm id outside {none,
\* flocking, flocking-alpha, formation-ecbf, safe-flocking-alpha}, and new_builtin
\* given a model id outside the model catalog, returns an error: no engine is
\* created, respectively the engine is left as it was.
C20_UnknownId ==
    UnknownIdGiven =>
        /\ ~last.ok
        /\ last.op \in Constructors => ~built
        /\ last.op = "set_algorithm" => built /\ Snapshot = hist.pre

\* an unknown algorithm id given to an engine whose controller holds state
C20_Witness ==
    /\ last.op = "set_algorithm"
    /\ last.arg[1] = "boids"
    /\ ~last.ok
    /\ algorithm_id = "safe-flocking-alpha"
    /\ Len(algorithm.state.u_safe) > 0
    /\ sim.time > 0


\* C21: with N = 0 every tick and every step is a no-op: time, dt, plane_2d, the
\* empty arrays and the controller (parameters and state) are what they were before
\* the call, no controller ran, and the call returns, for each of the five algorithms.
C21_EmptyNoOp ==
    built /\ Integrates /\ SimLen(hist.pre.sim) = 0 =>
        /\ sim = hist.pre.sim
        /\ sim.time = 0 /\ sim.x = <<>> /\ sim.v = <<>> /\ sim.forces = <<>>
        /\ plane_2d = hist.pre.plane_2d
        /\ algorithm = hist.pre.algorithm
        /\ algorithm_id = hist.pre.algorithm_id
        /\ algorithm.kind = "FormationEcbf" => algorithm.state = FormationEcbfStateDefault
        /\ algorithm.kind = "SafeFlockingAlpha" => algorithm.state = SafeFlockAlphaStateDefault
        /\ ~probe.ran
        /\ probe.fx = <<>>

\* a second tick of an empty engine in 2D mode under the formation controller
C21_Witness ==
    /\ built /\ AfterTick
    /\ SimLen(hist.pre.sim) = 0
    /\ algorithm_id = "formation-ecbf"
    /\ plane_2d
    /\ budget.ticks = MaxTicks

\* what a constructor call builds, from the call alone
Built(call) ==
    CASE call.op = "new_builtin" -> new_builtin(call.arg[1], call.arg[2])
      [] call.op = "new_custom" -> new_custom(call.arg[1], call.arg[2], call.arg[3], call.arg[4])
      [] OTHER -> new_from_states(call.arg[1], call.arg[2], call.arg[3])

\* the variant a parameter setter matches
SetterKind(op) ==
    CASE op = "set_flock_params" -> "Flocking"
      [] op = "set_flock_alpha_params" -> "FlockingAlpha"
      [] op = "set_formation_ecbf_params" -> "FormationEcbf"
      [] OTHER -> "SafeFlockingAlpha"

\* the fields an engine of model mid with fields e has after the call: a function
\* of e, mid and the call, and of nothing else
After(e, mid, call) ==
    LET a == call.arg
    IN  CASE call.op = "tick" ->
                LET c == EngineTick(e.algorithm, e.sim, e.plane_2d)
                IN  [e EXCEPT !.algorithm = c.algo, !.sim = c.sim]
          [] call.op = "step" ->
                LET c == EngineStep(e.algorithm, e.sim, e.plane_2d)
                IN  [e EXCEPT !.algorithm = c.algo, !.sim = c.sim]
          [] call.op = "set_plane_2d" -> [e EXCEPT !.plane_2d = a[1]]
          [] call.op = "set_algorithm" ->
                LET r == set_algorithm(a[1], mid, e.algorithm, e.algorithm_id)
                IN  [e EXCEPT !.algorithm = r.algorithm, !.algorithm_id = r.algorithm_id]
          [] call.op = "set_position" -> [e EXCEPT !.sim = SimSetPosition(e.sim, a[1], a[2])]
          [] call.op = "set_velocity" -> [e EXCEPT !.sim = SimSetVelocity(e.sim, a[1], a[2])]
          [] call.op = "set_force" -> [e EXCEPT !.sim = SimSetForce(e.sim, a[1], a[2])]
          [] call.op = "set_uniform_force" -> [e EXCEPT !.sim = set_uniform_force(e.sim, a[1])]
          [] call.op = "reset_agent" ->
                [e EXCEPT !.algorithm = reset_agent(e.algorithm, a[1], a[2], a[3])]
          [] OTHER ->
                [e EXCEPT !.algorithm = set_params(SetterKind(call.op), e.algorithm, a[1]).algorithm]

\* the engine a second host holds that made the same calls: the one built by the
\* same constructor call, or the one the same call left from the same fields
Twin ==
    IF last.op \in Constructors
    THEN [sim |-> Built(last).model, algorithm |-> Built(last).algorithm,
          algorithm_id |-> Built(last).algorithm_id, plane_2d |-> Built(last).plane_2d]
    ELSE After(hist.pre, model_id, last)

RECURSIVE NoneTicks(_, _)
NoneTicks(s, K) == IF K = 0 THEN s ELSE NoneTicks(EngineTick(AlgorithmNone, s, FALSE).sim, K - 1)

\* agent i has no drag, and its acceleration F / m is a value of the grid
FreeBody(s, i) ==
    /\ s.drag[i] = 0
    /\ VScale(s.mass[i], VQuot(s.forces[i], s.mass[i])) = s.forces[i]

\* v0 + K dt F / m   and   x0 + K dt v0 + (K dt)^2 F / (2 m)
ClosedForm(s, i, K) ==
    LET a == VQuot(s.forces[i], s.mass[i])
        T == K * s.dt
    IN  [v |-> VAdd(s.v[i], VScale(T, a)),
         x |-> VAdd(VAdd(s.x[i], VScale(T, s.v[i])), VQuot(VScale(T * T, a), 2))]

QpFeasible(x, lo, hi, cons) ==
    /\ \A k \in 1..Len(x) : lo[k] <= x[k] /\ x[k] <= hi[k]
    /\ \A m \in 1..Len(cons) : SVDot(cons[m].a, x) >= cons[m].b

\* the constraint set of the call is compatible: a point satisfies all of it
QpCompatible == QpFeasible(qp.inside, qp.box_min, qp.box_max, qp.constraints)

RECURSIVE QpTolTo(_, _, _)
\* the least tol with a.x >= b - tol for the first m half-spaces of the list
QpTolTo(x, cons, m) ==
    IF m = 0 THEN 0 ELSE Max2(QpTolTo(x, cons, m - 1), cons[m].b - SVDot(cons[m].a, x))

QpTol(x) == QpTolTo(x, qp.constraints, Len(qp.constraints))

\* what the projector returns for the arguments of the call and cap iters
QpOut(iters) ==
    IF Len(qp.x_nom) = 3
    THEN project_qp3(qp.x_nom, qp.box_min, qp.box_max, qp.constraints, iters)
    ELSE project_qp4(qp.x_nom, qp.box_min, qp.box_max, qp.constraints, iters)

\* C24: for a compatible constraint set the output satisfies every half-space
\* a.x >= b - tol with a tol that does not grow when the cap grows by one, and
\* with a slack column (project_qp4) every half-space holds exactly.
C24_Feasible ==
    qp.called /\ QpCompatible =>
        /\ qp.out = QpOut(qp.iters)
        /\ QpTol(QpOut(qp.iters + 1)) <= QpTol(qp.out)
        /\ Len(qp.x_nom) = 4 => QpTol(qp.out) = 0

\* calls on compatible sets: one whose output satisfies every half-space, and after
\* it one with a larger cap
C24_Witness ==
    /\ qp.called /\ QpCompatible
    /\ Len(qp.constraints) = 2
    /\ qp.iters = MaxIters
    /\ QpTol(qp.out) < QpTol(QpOut(2))

\* the half-space has a unit normal along an axis
AxisAligned(c) ==
    \E k \in 1..3 : Abs(c.a[k]) = 1 /\ \A j \in (1..3) \ {k} : c.a[j] = 0

\* the box cut by an axis-aligned half-space is a box again: a.x >= b moves the
\* lower bound up to b for a = e_k and the upper bound down to -b for a = -e_k
CutBox(lo, hi, c) ==
    [lo |-> [k \in 1..3 |-> IF c.a[k] = 1 THEN Max2(lo[k], c.b) ELSE lo[k]],
     hi |-> [k \in 1..3 |-> IF c.a[k] = -1 THEN Min2(hi[k], -c.b) ELSE hi[k]]]

\* the squared distance of two points
Dist2(x, y) == SVDot(SVSub(x, y), SVSub(x, y))

\* points of the box to compare the output with
QpLattice == { QpScaled(<<i, j, k>>) : i \in -2..2, j \in -2..2, k \in -2..2 }

\* x is in the set, and no point of the lattice that is in the set is closer to x_nom
NearestFeasible(x, x_nom, lo, hi, cons) ==
    /\ QpFeasible(x, lo, hi, cons)
    /\ \A p \in QpLattice : QpFeasible(p, lo, hi, cons) => Dist2(x, x_nom) <= Dist2(p, x_nom)

\* C25: for a box and one axis-aligned half-space that intersect, project_qp3
\* returns the Euclidean projection of the nominal point onto their intersection
\* for every cap, and cap 0 returns what cap 1 returns; nominal (0,0,0), box
\* [-1,1]^3, a = (1,0,0), b = 1/2 and 8 iterations give (1/2,0,0); with no
\* half-space the result is the componentwise clamp of the nominal point.
C25_AxisProjection ==
    /\ project_qp3(<<0, 0, 0>>, QpBox3(1).lo, QpBox3(1).hi, << Halfspace(<<1, 0, 0>>, 128) >>, 8)
          = <<128, 0, 0>>
    /\ qp.called /\ Len(qp.x_nom) = 3 /\ QpCompatible =>
          /\ qp.out = QpOut(qp.iters)
          /\ QpOut(0) = QpOut(1)
          /\ Len(qp.constraints) = 1 /\ AxisAligned(qp.constraints[1]) =>
                /\ qp.out = clamp_vec(qp.x_nom,
                                      CutBox(qp.box_min, qp.box_max, qp.constraints[1]).lo,
                                      CutBox(qp.box_min, qp.box_max, qp.constraints[1]).hi)
                /\ NearestFeasible(qp.out, qp.x_nom, qp.box_min, qp.box_max, qp.constraints)
          /\ qp.constraints = <<>> =>
                /\ qp.out = clamp_vec(qp.x_nom, qp.box_min, qp.box_max)
                /\ NearestFeasible(qp.out, qp.x_nom, qp.box_min, qp.box_max, qp.constraints)

\* a call with the largest cap in which both the box and the half-space moved the
\* nominal point
C25_Witness ==
    /\ qp.called /\ Len(qp.x_nom) = 3 /\ QpCompatible
    /\ qp.iters = MaxIters
    /\ Len(qp.constraints) = 1 /\ AxisAligned(qp.constraints[1])
    /\ qp.out # clamp_vec(qp.x_nom, qp.box_min, qp.box_max)
    /\ clamp_vec(qp.x_nom, qp.box_min, qp.box_max) # qp.x_nom

\* a step_with_field has just returned
AfterFieldStep == last.op = "step_with_field"

\* the state h after the start s0 of the step along the slopes taken at a call c of
\* the field:  x + h v_c,  v + h (F_c - drag v_c) / m
Intermediate(s0, field, c, h) ==
    [x |-> [i \in 1..SimLen(s0) |-> VAdd(s0.x[i], VScale(h, c.v[i]))],
     v |-> [i \in 1..SimLen(s0) |->
               VAdd(s0.v[i], VScale(h, VQuot(VSub(force_all(field, c.t, c.x, c.v)[i],
                                                  VScale(s0.drag[i], c.v[i])), s0.mass[i])))]]

\* the four calls of the field: at (t, x, v), at (t + dt/2, first intermediate
\* state), at (t + dt/2, second intermediate state), at (t + dt, third one)
FourCalls(s0, field, calls) ==
    /\ Len(calls) = 4
    /\ calls[1] = [t |-> s0.time, x |-> s0.x, v |-> s0.v]
    /\ calls[2].t = s0.time + Quot(s0.dt, 2)
    /\ calls[2].x = Intermediate(s0, field, calls[1], Quot(s0.dt, 2)).x
    /\ calls[2].v = Intermediate(s0, field, calls[1], Quot(s0.dt, 2)).v
    /\ calls[3].t = s0.time + Quot(s0.dt, 2)
    /\ calls[3].x = Intermediate(s0, field, calls[2], Quot(s0.dt, 2)).x
    /\ calls[3].v = Intermediate(s0, field, calls[2], Quot(s0.dt, 2)).v
    /\ calls[4].t = s0.time + s0.dt
    /\ calls[4].x = Intermediate(s0, field, calls[3], s0.dt).x
    /\ calls[4].v = Intermediate(s0, field, calls[3], s0.dt).v

\* two simulators that differ in the stored forces at most
SameButForces(s1, s2) == [s1 EXCEPT !.forces = s2.forces] = s2

\* step_with_field neither writes the stored forces nor reads them, and with the
\* field that returns a constant force it leaves the state set_force and step leave
FieldStepFrame(s0, field) ==
    /\ sim.forces = s0.forces
    /\ SameButForces(SimStepWithField(set_uniform_force(s0, <<1, 1, 1>>), field), sim)
    /\ field = "push" => SameButForces(SimStep(set_uniform_force(s0, <<2, -4, 0>>)), sim)

\* C27 as stated: every step_with_field evaluates the force field exactly four
\* times, at (t, x, v) and at the three intermediate states.
C27_FourCallsEveryStep ==
    AfterFieldStep => FourCalls(hist.pre.sim, last.arg[1], probe.calls)

\* C27: a step_with_field of a simulator with N >= 1 evaluates the force field
\* exactly four times, in this order: at (t, x, v), at (t + dt/2, first
\* intermediate state), at (t + dt/2, second intermediate state), at (t + dt,
\* third intermediate state); with N = 0 it makes no call.  It never reads or
\* writes the stored forces, and with a field that returns a constant force it
\* leaves the state that set_force and step leave.
C27_FieldCalls ==
    AfterFieldStep =>
        /\ IF SimLen(hist.pre.sim) >= 1
           THEN FourCalls(hist.pre.sim, last.arg[1], probe.calls)
           ELSE probe.calls = <<>>
        /\ FieldStepFrame(hist.pre.sim, last.arg[1])

\* a second step_with_field, with the constant field, of bodies under stored forces
C27_Witness ==
    /\ AfterFieldStep
    /\ last.arg[1] = "push"
    /\ budget.ticks = MaxTicks
    /\ Len(probe.calls) = 4
    /\ probe.calls[2].x # probe.calls[3].x
    /\ \E i \in 1..SimLen(sim) : sim.forces[i] # Zero3 /\ sim.forces[i] # <<2, -4, 0>>

\* a step_par_with_field has returned
AfterParStep == last.op = "step_par_with_field" /\ par.stage = 0

\* the first m elements of a list
Prefix(list, m) == [j \in 1..m |-> list[j]]

\* C26: for every interleaving of the workers step_par_with_field leaves the
\* positions, velocities, time and trajectories that step_with_field leaves, and
\* every evaluation of the force field is made on the state the sequential step
\* evaluates it on: no stage starts before the workers of the stage before it are
\* through, each of which touches its own index of the stage buffers only.
C26_ParallelEqualsSequential ==
    /\ AfterParStep =>
          /\ sim = SimStepWithField(hist.pre.sim, last.arg[1])
          /\ par.calls = FieldCalls(hist.pre.sim, last.arg[1])
    /\ par.stage \in 1..4 =>
          /\ Len(par.calls) = par.stage
          /\ par.calls = Prefix(FieldCalls(hist.pre.sim, last.arg[1]), par.stage)
    /\ par.stage \in 5..6 => par.calls = FieldCalls(hist.pre.sim, last.arg[1])

\* the second parallel step of three bodies has returned and moved them
C26_Witness ==
    /\ AfterParStep
    /\ budget.ticks = MaxTicks
    /\ SimLen(sim) = 3
    /\ sim.x # hist.pre.sim.x
    /\ Len(par.calls) = 4
    /\ \E i \in 1..3 : sim.traj[i].some /\ Len(sim.traj[i].rec) = MaxTicks

\* the workers are at different statements of one stage
C26_InterleavedWitness ==
    /\ par.stage = 2
    /\ \E i, j \in 1..Len(par.pc) : par.pc[i] = 1 /\ par.pc[j] = 5

\* a tick in which the formation controller got past its early returns
AfterEcbfTick == AfterTick /\ probe.ran /\ algorithm.kind = "FormationEcbf"

\* the observer state when update_distributed_observer is entered in the last tick
ObserverEntry ==
    LET s0 == probe.model[1]
        ls == leader_state(hist.pre.algorithm, s0.time)
    IN  ensure_offsets(ensure_state(ls.state, SimLen(s0), ControllerView(s0.v, hist.pre.plane_2d),
                                    ls.out[1], ls.out[2]),
                       hist.pre.algorithm.params, ControllerView(s0.x, hist.pre.plane_2d), ls.out[1])

\* one explicit Euler step of agent i from the values all agents have at entry
EulerFromEntry(i) ==
    ObserverAgent(ObserverEntry, hist.pre.algorithm.params, i, SimLen(sim), probe.model[1].dt,
                  probe.leader[1][1], probe.leader[1][2])

\* C28: the observer update of a tick is one explicit Euler step: the new chi_i and
\* varsigma_i of every agent i are computed from the values chi_j, varsigma_j that
\* its neighbours j have when the tick starts, so the order in which the agents are
\* processed does not matter.
C28_EulerFromTickStart ==
    AfterEcbfTick =>
        \A i \in 1..SimLen(sim) :
            /\ algorithm.state.chi[i] = EulerFromEntry(i).chi[i]
            /\ algorithm.state.varsigma[i] = EulerFromEntry(i).varsigma[i]

\* a tick whose first agent is updated from the tick-start values and moves its
\* estimate, which a neighbour then reads
C28_Witness ==
    /\ AfterEcbfTick
    /\ SimLen(sim) >= 2
    /\ algorithm.state.chi[1] = EulerFromEntry(1).chi[1]
    /\ algorithm.state.chi[1] # ObserverEntry.chi[1]
    /\ \E j \in 2..SimLen(sim) : adj_weight(algorithm.params, j, 1, SimLen(sim)) # 0

\* the offsets a first apply fixes for parameters p, positions as the controller
\* sees them and the leader at p0
OffsetsToFix(p, positions, p0) ==
    IF Len(p.formation_offsets) = Len(positions) THEN p.formation_offsets
    ELSE IF p.auto_offsets THEN [i \in 1..Len(positions) |-> VSub(positions[i], p0)]
    ELSE [i \in 1..Len(positions) |-> Zero3]

\* the call installed a controller: a constructor, or a set_algorithm that returned Ok
Installs == last.op \in Constructors \/ (last.op = "set_algorithm" /\ last.ok)

\* C29: the formation controller fixes its offsets once, at its first effective
\* apply: the configured offsets if their count is N (also with auto_offsets set),
\* else the positions minus p0 if auto_offsets, else zeros; after that no tick, no
\* parameter write and no move of an agent changes them.
C29_OffsetsFixedOnce ==
    built /\ algorithm.kind = "FormationEcbf" /\ ~Installs =>
        IF AfterEcbfTick /\ probe.first
        THEN /\ ~hist.pre.algorithm.state.offsets_ready
             /\ algorithm.state.offsets_ready
             /\ algorithm.state.formation_offsets =
                   OffsetsToFix(hist.pre.algorithm.params,
                                ControllerView(probe.model[1].x, hist.pre.plane_2d),
                                probe.leader[1][1])
        ELSE /\ algorithm.state.offsets_ready = hist.pre.algorithm.state.offsets_ready
             /\ algorithm.state.formation_offsets = hist.pre.algorithm.state.formation_offsets
             /\ AfterEcbfTick => algorithm.state.offsets_ready

\* a later effective apply, with parameters written after the first, leaves offsets
\* that are no longer what a first apply would fix now
C29_Witness ==
    /\ built /\ AfterEcbfTick /\ ~probe.first
    /\ hist.prev.op = "set_formation_ecbf_params" /\ hist.prev.ok
    /\ algorithm.state.offsets_ready
    /\ algorithm.state.formation_offsets = hist.pre.algorithm.state.formation_offsets
    /\ algorithm.state.formation_offsets #
          OffsetsToFix(hist.pre.algorithm.params, ControllerView(probe.model[1].x, hist.pre.plane_2d),
                       probe.leader[1][1])

\* first applies that fix the configured offsets, the automatic ones, and zeros
C29_BranchesWitness ==
    /\ built /\ AfterEcbfTick /\ probe.first
    /\ Len(algorithm.params.formation_offsets) # SimLen(sim)
    /\ ~algorithm.params.auto_offsets
    /\ algorithm.state.formation_offsets = Fill(SimLen(sim), Zero3)


\* the controller with default parameters and empty internal state that belongs to an id
DefaultController(id) ==
    CASE id = ALGO_NONE -> AlgorithmNone
      [] id = ALGO_FLOCKING -> [kind |-> "Flocking", params |-> FlockParamsDefault, state |-> <<>>]
      [] id = ALGO_FLOCKING_ALPHA ->
            [kind |-> "FlockingAlpha", params |-> FlockAlphaParamsDefault, state |-> <<>>]
      [] id = ALGO_FORMATION_ECBF ->
            [kind |-> "FormationEcbf", params |-> FormationEcbfParamsDefault,
             state |-> FormationEcbfStateDefault]
      [] OTHER ->
            [kind |-> "SafeFlockingAlpha", params |-> SafeFlockAlphaParamsDefault,
             state |-> SafeFlockAlphaStateDefault]

\* the controllers the engine can hold before the call: the one it held, and that one
\* after a parameter write
Held ==
    {hist.pre.algorithm}
    \cup {set_params("Flocking", hist.pre.algorithm, p).algorithm : p \in FlockParamInputs}
    \cup {set_params("FlockingAlpha", hist.pre.algorithm, p).algorithm : p \in FlockAlphaParamInputs}
    \cup {set_params("FormationEcbf", hist.pre.algorithm, p).algorithm : p \in EcbfParamInputs}
    \cup {set_params("SafeFlockingAlpha", hist.pre.algorithm, p).algorithm : p \in SafeParamInputs}

=============================================================================
